---- MODULE Spec2Model ----
(***************************************************************************)
(* A model of the oarkflow/ws messaging hub: the Hub registry with its     *)
(* admission counter, the Socket and Connection objects with their two     *)
(* outbound lanes and writer task, the offline message store, and the      *)
(* dispatcher of inbound frames.                                           *)
(*                                                                         *)
(* Socket objects are distinct from socket ids: Hub.sockets maps an id to  *)
(* a Socket pointer, and ids and message ids are formatted readings of the *)
(* wall clock (time.Now().UnixNano()), which two reads may find equal.     *)
(***************************************************************************)
EXTENDS Integers, Sequences, FiniteSets, TLC

\* ------------------------------------------------------------ bounds
\* Connection objects the server accepts during a run.
MaxConn == 3
\* Distinct readings of the clock.
MaxClock == 2
\* Hub.maxConns, scaled down from the 100000 NewHub sets so the cap is met.
maxConns == 2
\* Capacity of writeChan and binaryChan, scaled down from 256.
ChanCap == 3
\* Frames and API calls handled during a run.
MaxOps == 2
\* Hub fan-outs followed socket by socket during a run.
MaxFan == 1
\* Frames a connection's transport records.
MaxWire == 3

\* ------------------------------------------------------------ constants
MsgBroadcast == 1
MsgPrivate   == 2
MsgSystem    == 3
MsgSubscribe == 4
MsgUnsubscribe == 5
MsgPing      == 6
MsgPong      == 7
MsgAck       == 9
MsgFile      == 10
MsgTyping    == 11
MsgDirect    == 12
MsgError     == 8
MsgThread    == 13
MsgUserList  == 14
MsgSetAlias  == 15
MsgAuth      == 16
MsgJoin      == 17
MsgOffer     == 18
MsgAnswer    == 19
MsgIceCandidate == 20
MsgMute      == 21
MsgUnmute    == 22
MsgHold      == 23
MsgDTMF      == 24
MsgJoined    == 25
MsgPeerJoined == 26
MsgPeerLeft  == 27
MsgCallStateChanged == 28
MsgRecordingStarted == 29
MsgRecordingFinished == 30

Conns  == 1..MaxConn
Times  == 1..MaxClock
\* A socket id is the decimal form of a clock reading.
IDs    == Times
\* The nil *Socket and the absent map entry.
Nil    == 0
\* Topic names; "" is the absent topic, "general" the reserved one.
Topics == {"", "general", "news"}
\* The topics a client subscribes to, and those file metadata names.
SubTopics == {"general", "news"}
FileTopics == {"", "news"}
\* Shapes of a Message's Data: nil, a map[string]interface{}, anything else.
DataKinds == {"nil", "map", "str"}

VARIABLES
    clock,          \* the reading time.Now().UnixNano() returns next
    sockets,        \* Hub.sockets: id -> Socket object, Nil when absent
    connCount,      \* Hub.connCount
    storage,        \* InMemoryMessageStorage.messages: id -> stored messages
    pc,             \* where each connection's serving goroutine is
    sockID,         \* Socket.ID
    isBanned,       \* Socket.isBanned
    pendingFile,    \* Socket.pendingFile
    subscriptions,  \* Connection.subscriptions
    writeChan,      \* Connection.writeChan
    binaryChan,     \* Connection.binaryChan
    writer,         \* state of the connection's writerLoop goroutine
    wire,           \* frames written to the connection's transport
    fan,            \* the hub fan-out in progress, under the Hub read lock
    nops,           \* frames and API calls handled so far
    properties,     \* Socket.properties["user_id"], "" when the key is absent
    rooms,          \* Manager.rooms: room id -> Room object, Nil when absent
    peers,          \* Manager.peers: socket id -> Peer
    heap,           \* the Room objects allocated so far
    task,           \* where a connection's goroutine is inside the Manager
    crashed,        \* the process was ended by an unrecovered panic
    codec,          \* the frame or name a conversion is applied to, and its results
    handlers,       \* Hub.globalHandlers' events, and the handler goroutines running
    locks           \* the mutexes' holders, and each task's remaining lock operations

vars == <<clock, sockets, connCount, storage, pc, sockID, isBanned, pendingFile,
          subscriptions, writeChan, binaryChan, writer, wire, fan, nops,
          properties, rooms, peers, heap, task, crashed, codec, handlers,
          locks>>

hubVars   == <<sockets, connCount>>
sockVars  == <<sockID, isBanned, pendingFile, subscriptions>>
chanVars  == <<writeChan, binaryChan>>
callVars  == <<properties, rooms, peers, heap, task, crashed>>

\* ------------------------------------------------------------ messages
NoID == <<"", 0>>
\* generateSocketID: "%d" of the clock reading.
generateSocketID(t) == t
\* generateMessageID: "msg_%d" of the clock reading.
generateMessageID(t) == <<"msg", t>>
SocketMsgID(id) == <<"sock", id>>

\* A Message's Data: its shape, its content v (the serial number of the frame
\* or call that carried it), and the keys the server adds to a map.
MkData(k, v) ==
    [kind |-> k, v |-> v, from |-> 0, action |-> "", topic |-> "",
     offline |-> FALSE, delivered_at |-> FALSE, participants |-> <<>>]
NilData == MkData("nil", 0)
MapData(v) == MkData("map", v)

Message(t, topic, data, id, from) ==
    [T |-> t, Topic |-> topic, Data |-> data, ID |-> id, From |-> from]

\* stringToMsgType: the tag of an event name; a name without a case is a
\* system message.
stringToMsgType(event) ==
    CASE event = "broadcast" -> MsgBroadcast
      [] event = "private" -> MsgPrivate
      [] event = "system" -> MsgSystem
      [] event = "subscribed" -> MsgAck
      [] event = "unsubscribed" -> MsgAck
      [] event = "ping" -> MsgPing
      [] event = "pong" -> MsgPong
      [] event = "error" -> MsgError
      [] event = "file" -> MsgFile
      [] event = "typing" -> MsgTyping
      [] event = "direct" -> MsgDirect
      [] event = "thread" -> MsgThread
      [] event = "user_list" -> MsgUserList
      [] event = "set_alias" -> MsgSetAlias
      [] event = "auth" -> MsgAuth
      [] event = "join" -> MsgJoin
      [] event = "offer" -> MsgOffer
      [] event = "answer" -> MsgAnswer
      [] event = "ice-candidate" -> MsgIceCandidate
      [] event = "mute" -> MsgMute
      [] event = "unmute" -> MsgUnmute
      [] event = "hold" -> MsgHold
      [] event = "dtmf" -> MsgDTMF
      [] event = "joined" -> MsgJoined
      [] event = "peer-joined" -> MsgPeerJoined
      [] event = "peer-left" -> MsgPeerLeft
      [] event = "call-state-changed" -> MsgCallStateChanged
      [] event = "recording-started" -> MsgRecordingStarted
      [] event = "recording-finished" -> MsgRecordingFinished
      [] OTHER -> MsgSystem

\* msgTypeToString: the event name of a tag.
msgTypeToString(msgType) ==
    CASE msgType = MsgBroadcast -> "broadcast"
      [] msgType = MsgPrivate -> "private"
      [] msgType = MsgSystem -> "system"
      [] msgType = MsgSubscribe -> "subscribe"
      [] msgType = MsgUnsubscribe -> "unsubscribe"
      [] msgType = MsgPing -> "ping"
      [] msgType = MsgPong -> "pong"
      [] msgType = MsgError -> "error"
      [] msgType = MsgAck -> "ack"
      [] msgType = MsgFile -> "file"
      [] msgType = MsgTyping -> "typing"
      [] msgType = MsgDirect -> "direct"
      [] msgType = MsgThread -> "thread"
      [] msgType = MsgUserList -> "user_list"
      [] msgType = MsgSetAlias -> "set_alias"
      [] msgType = MsgAuth -> "auth"
      [] msgType = MsgJoin -> "join"
      [] msgType = MsgOffer -> "offer"
      [] msgType = MsgAnswer -> "answer"
      [] msgType = MsgIceCandidate -> "ice-candidate"
      [] msgType = MsgMute -> "mute"
      [] msgType = MsgUnmute -> "unmute"
      [] msgType = MsgHold -> "hold"
      [] msgType = MsgDTMF -> "dtmf"
      [] msgType = MsgJoined -> "joined"
      [] msgType = MsgPeerJoined -> "peer-joined"
      [] msgType = MsgPeerLeft -> "peer-left"
      [] msgType = MsgCallStateChanged -> "call-state-changed"
      [] msgType = MsgRecordingStarted -> "recording-started"
      [] msgType = MsgRecordingFinished -> "recording-finished"
      [] OTHER -> "unknown"

\* ------------------------------------------------------------ codec
\* A text frame's JSON object: its keys, a zero value standing for an absent
\* key (what omitempty leaves out and what a missing key decodes to).
Frame(t, topic, to, data, code, id, threadId, replyTo, from) ==
    [t |-> t, topic |-> topic, to |-> to, data |-> data, code |-> code, id |-> id,
     threadId |-> threadId, replyTo |-> replyTo, from |-> from]

\* The Message struct with all its fields.
Struct(t, topic, to, data, code, id) ==
    [T |-> t, Topic |-> topic, To |-> to, Data |-> data, Code |-> code, ID |-> id,
     ThreadID |-> "", ReplyTo |-> "", From |-> ""]

\* The frames the codec is applied to.
Frames ==
    {Frame(t, topic, to, data, code, id, th, re, from) :
        t \in {MsgBroadcast, MsgSubscribe, MsgThread}, topic \in {"", "news"},
        to \in {"", "2"}, data \in {"nil", "map"}, code \in {0, 7},
        id \in {"", "m1"}, th \in {"", "th1"}, re \in {"", "m0"},
        from \in {"", "bob"}}

\* The encodings of a frame a client may send.
Forms == {"object", "array", "legacy"}

\* The positional array [t, topic, data, id, to, code] of a frame.
arrayForm(f) == <<f.t, f.topic, f.data, f.id, f.to, f.code>>
\* The legacy object {event, topic, data, id} of a frame.
legacyForm(f) == [event |-> msgTypeToString(f.t), topic |-> f.topic, data |-> f.data,
                  id |-> f.id]

\* handleMessage on an object with "t": t, topic, data, id, to and code are
\* read; no other key is.
decodeObject(obj) == Struct(obj.t, obj.topic, obj.to, obj.data, obj.code, obj.id)

\* handleMessage on an array: each position present is read.
decodeArray(arr) ==
    Struct(IF Len(arr) > 0 THEN arr[1] ELSE 0,
           IF Len(arr) > 1 THEN arr[2] ELSE "",
           IF Len(arr) > 4 THEN arr[5] ELSE "",
           IF Len(arr) > 2 THEN arr[3] ELSE "nil",
           IF Len(arr) > 5 THEN arr[6] ELSE 0,
           IF Len(arr) > 3 THEN arr[4] ELSE "")

\* handleMessage on an object with "event": the name is mapped to a tag and
\* topic, data and id are read.
decodeLegacy(obj) == Struct(stringToMsgType(obj.event), obj.topic, "", obj.data, 0, obj.id)

\* handleMessage: the decoding of frame f sent in the given form.
decode(form, f) ==
    CASE form = "object" -> decodeObject(f)
      [] form = "array" -> decodeArray(arrayForm(f))
      [] form = "legacy" -> decodeLegacy(legacyForm(f))

\* json.Marshal of a Message: every field under its key.
encode(msg) ==
    Frame(msg.T, msg.Topic, msg.To, msg.Data, msg.Code, msg.ID, msg.ThreadID,
          msg.ReplyTo, msg.From)

\* No conversion in progress.
NoCodec == [stage |-> "none", frame |-> Frame(0, "", "", "nil", 0, "", "", "", ""),
            form |-> "object", msg |-> Struct(0, "", "", "nil", 0, ""),
            out |-> Frame(0, "", "", "nil", 0, "", "", "", ""),
            name |-> "", tag |-> 0, back |-> 0]

\* ------------------------------------------------------------ event handlers
\* Hub.globalHandlers with no event registered, and no handler running.
NoHandlers == [on |-> {}, running |-> {}]

\* Hub.triggerHandlers for each of `events` in turn: `go handler(socket)` for
\* the handlers registered under the event. A goroutine is named by its
\* event and socket.
triggerHandlers(h, events, socket) ==
    [h EXCEPT !.running = @ \cup {<<e, socket>> : e \in events \cap h.on}]

\* Hub.RemoveSocket's trigger of "disconnect" for the socket it found under
\* the id of connection c, if it found one.
RemovedOnly(h, c) ==
    IF sockets[sockID[c]] # Nil THEN triggerHandlers(h, {"disconnect"}, sockets[sockID[c]])
    ELSE h

\* The triggers of handleConnection's deferred function: "disconnect" inside
\* RemoveSocket, then "close".
Removed(h, c) == triggerHandlers(RemovedOnly(h, c), {"close"}, c)

\* ------------------------------------------------------------ locks
\* Goroutines that take locks at the same time.
MaxTasks == 3

\* Lock-taking functions entered during a run.
MaxLockOps == 3
Tasks == 1..MaxTasks

\* Hub.mu, Socket.mu, Manager.mu, Room.mu, the offline store's mu and
\* Connection.mu (the write mutex). No code holds the locks of two sockets,
\* two rooms or two connections at once, so one of each is modelled.
LockNames == {"hub", "socket", "manager", "room", "store", "conn"}

\* No lock held or asked for, and no task inside an operation. A task's
\* prog is the lock calls it has still to make, in the order of the code.
NoLocks ==
    [prog |-> [t \in Tasks |-> <<>>], waiting |-> [t \in Tasks |-> FALSE],
     w |-> [l \in LockNames |-> Nil], r |-> [l \in LockNames |-> {}], n |-> 0]

\* Socket.Ban with the Hub lock asked for inside the Socket lock.
BanLocks_HubInside ==
    <<<<"Lock", "socket">>, <<"Lock", "hub">>, <<"Unlock", "hub">>,
      <<"Unlock", "socket">>>>

\* Socket.Ban, which Hub.BanSocket calls after GetSocket has returned.
BanLocks == <<<<"Lock", "socket">>, <<"Unlock", "socket">>>>

\* The lock calls of each function that takes a lock, in the order the code
\* makes them, from its first Lock to the Unlock after which it holds none.
\* A handler is a sequence of these: handleJoin is GetSocket, GetProperty,
\* getOrCreateRoom, Participants (226-228), peers (231-233), getRoomState,
\* broadcastToRoomExceptPtr; HandleDisconnect is getPeer, getRoom,
\* Participants (511-513), broadcastToRoomExceptPtr, peers (526-528, 533-535).
LockProgram(op) ==
    CASE op \in {"NewSocket", "RemoveSocket"} ->
           <<<<"Lock", "hub">>, <<"Unlock", "hub">>>>
      [] op = "GetSocket" ->
           <<<<"RLock", "hub">>, <<"RUnlock", "hub">>>>
      [] op = "BroadcastExcept" ->
           <<<<"RLock", "hub">>, <<"RLock", "socket">>, <<"RUnlock", "socket">>,
             <<"RUnlock", "hub">>>>
      [] op = "Emit" ->
           <<<<"RLock", "hub">>, <<"Lock", "store">>, <<"Unlock", "store">>,
             <<"RUnlock", "hub">>>>
      [] op = "EmitBinary" ->
           <<<<"RLock", "hub">>, <<"RLock", "socket">>, <<"RUnlock", "socket">>,
             <<"Lock", "store">>, <<"Unlock", "store">>, <<"RUnlock", "hub">>>>
      [] op = "Ban" -> BanLocks
      [] op = "GetProperty" ->
           <<<<"RLock", "socket">>, <<"RUnlock", "socket">>>>
      [] op = "GetMessages" ->
           <<<<"RLock", "store">>, <<"RUnlock", "store">>>>
      [] op = "DeleteMessages" ->
           <<<<"Lock", "store">>, <<"Unlock", "store">>>>
      [] op \in {"getPeer", "getRoom"} ->
           <<<<"RLock", "manager">>, <<"RUnlock", "manager">>>>
      [] op \in {"getOrCreateRoom", "peers"} ->
           <<<<"Lock", "manager">>, <<"Unlock", "manager">>>>
      [] op = "Participants" ->
           <<<<"Lock", "room">>, <<"Unlock", "room">>>>
      [] op \in {"getRoomState", "broadcastToRoomExceptPtr"} ->
           <<<<"RLock", "room">>, <<"RUnlock", "room">>>>
      [] op = "writeMessage" ->
           <<<<"Lock", "conn">>, <<"Unlock", "conn">>>>

LockOps ==
    {"NewSocket", "RemoveSocket", "GetSocket", "BroadcastExcept", "Emit", "EmitBinary",
     "Ban", "GetProperty", "GetMessages", "DeleteMessages", "getPeer", "getRoom",
     "getOrCreateRoom", "peers", "Participants", "getRoomState",
     "broadcastToRoomExceptPtr", "writeMessage"}

\* The tasks blocked in Lock() on lock l: sync.RWMutex admits no new reader
\* while a writer is blocked.
PendingWriters(l) ==
    {t \in Tasks : locks.waiting[t] /\ Head(locks.prog[t]) = <<"Lock", l>>}

\* A task with nothing under way enters a function that takes a lock.
LockStart(t, op) ==
    /\ locks.prog[t] = <<>>
    /\ locks.n < MaxLockOps
    /\ locks' = [locks EXCEPT !.prog[t] = LockProgram(op), !.n = @ + 1]
    /\ UNCHANGED <<callVars, codec, handlers>>
    /\ UNCHANGED <<clock, hubVars, storage, pc, sockVars, chanVars, writer, wire, fan, nops>>

\* The lock call at the head of task t's prog can return: Lock when nobody
\* holds the lock, RLock when no writer holds it and no writer is blocked.
CanLock(t) ==
    LET l == Head(locks.prog[t])[2] IN
    IF Head(locks.prog[t])[1] = "Lock"
    THEN locks.w[l] = Nil /\ locks.r[l] = {}
    ELSE locks.w[l] = Nil /\ PendingWriters(l) = {}

\* The task calls Lock or RLock on a lock it cannot have yet, and blocks.
LockRequest(t) ==
    /\ locks.prog[t] # <<>>
    /\ ~locks.waiting[t]
    /\ Head(locks.prog[t])[1] \in {"Lock", "RLock"}
    /\ ~CanLock(t)
    /\ locks' = [locks EXCEPT !.waiting[t] = TRUE]
    /\ UNCHANGED <<callVars, codec, handlers>>
    /\ UNCHANGED <<clock, hubVars, storage, pc, sockVars, chanVars, writer, wire, fan, nops>>

\* The lock call returns, at once or after it blocked.
LockGrant(t) ==
    /\ locks.prog[t] # <<>>
    /\ Head(locks.prog[t])[1] \in {"Lock", "RLock"}
    /\ CanLock(t)
    /\ LET l == Head(locks.prog[t])[2] IN
       locks' = [locks EXCEPT !.w[l] = IF Head(locks.prog[t])[1] = "Lock" THEN t ELSE @,
                              !.r[l] = IF Head(locks.prog[t])[1] = "RLock" THEN @ \cup {t} ELSE @,
                              !.waiting[t] = FALSE,
                              !.prog[t] = Tail(@)]
    /\ UNCHANGED <<callVars, codec, handlers>>
    /\ UNCHANGED <<clock, hubVars, storage, pc, sockVars, chanVars, writer, wire, fan, nops>>

\* The task calls Unlock or RUnlock, directly or by a deferred call.
LockRelease(t) ==
    /\ locks.prog[t] # <<>>
    /\ Head(locks.prog[t])[1] \in {"Unlock", "RUnlock"}
    /\ LET l == Head(locks.prog[t])[2] IN
       locks' = [locks EXCEPT !.w[l] = IF Head(locks.prog[t])[1] = "Unlock" THEN Nil ELSE @,
                              !.r[l] = IF Head(locks.prog[t])[1] = "RUnlock" THEN @ \ {t} ELSE @,
                              !.prog[t] = Tail(@)]
    /\ UNCHANGED <<callVars, codec, handlers>>
    /\ UNCHANGED <<clock, hubVars, storage, pc, sockVars, chanVars, writer, wire, fan, nops>>

\* Socket.pendingFile: nil, or the file metadata Message last received.
NoFile == [set |-> FALSE, To |-> 0, Topic |-> "", Data |-> NilData]
FileMeta(to, topic, data) == [set |-> TRUE, To |-> to, Topic |-> topic, Data |-> data]

\* The empty buffer handleConnection enqueues to unblock the writer.
Sentinel == Message(0, "", NilData, NoID, Nil)

\* No fan-out in progress.
Idle == [kind |-> "idle", msg |-> Sentinel, excludeSocket |-> 0, todo |-> {},
         passed |-> 0, seen |-> {}]

\* ------------------------------------------------------------ call manager state
\* Room ids clients name in a join.
RoomIDs == {"r1", "r2"}
\* Room objects getOrCreateRoom allocates during a run.
MaxRooms == 3
\* The user id validateToken returns for every token.
ValidUser == "user123"

\* The nil *Peer and the absent map entry.
NoPeer == [ID |-> Nil, UserID |-> "", RoomID |-> "", Socket |-> Nil]
\* The Peer handleJoin constructs.
Peer(id, userID, room, socket) ==
    [ID |-> id, UserID |-> userID, RoomID |-> room, Socket |-> socket]
\* The Room getOrCreateRoom constructs: its id and an empty participant table.
Room(roomID) == [ID |-> roomID, Participants |-> [i \in IDs |-> NoPeer]]

\* A connection's goroutine outside handleJoin and HandleDisconnect.
NoTask == [at |-> "none", room |-> Nil, RoomID |-> "", empty |-> FALSE]

\* NewManager: no room, no peer; no socket has a user_id property.
NoCalls ==
    /\ properties = [c \in Conns |-> ""]
    /\ rooms = [r \in RoomIDs |-> Nil]
    /\ peers = [i \in IDs |-> NoPeer]
    /\ heap = <<>>
    /\ task = [c \in Conns |-> NoTask]
    /\ crashed = FALSE

\* ------------------------------------------------------------ helpers
\* The Socket objects Hub.sockets holds.
Registered == {sockets[i] : i \in IDs} \ {Nil}

\* Socket.GetAlias with no alias set: a prefix of the id.
GetAlias(c) == sockID[c]

\* Socket.IsBanned
IsBanned(c) == isBanned[c]

\* Connection.IsSubscribed
IsSubscribed(c, topic) == topic \in subscriptions[c]

\* An enqueue that replaces the oldest entry of a full lane.
writeAsync_DropOldest(ch, c, data) ==
    IF Len(ch[c]) < ChanCap THEN [ch EXCEPT ![c] = Append(@, data)]
    ELSE [ch EXCEPT ![c] = Append(Tail(@), data)]

\* writeAsync / writeBinaryAsync on one lane: enqueue, or drop when full.
writeAsync(ch, c, data) ==
    IF Len(ch[c]) < ChanCap THEN [ch EXCEPT ![c] = Append(@, data)] ELSE ch

\* The same enqueue attempted on every connection of a set.
writeAsyncAll(ch, targets, data) ==
    [c \in Conns |-> IF c \in targets /\ Len(ch[c]) < ChanCap
                     THEN Append(ch[c], data) ELSE ch[c]]

\* ------------------------------------------------------------ initial state
Init ==
    /\ clock = 1
    /\ sockets = [i \in IDs |-> Nil]
    /\ connCount = 0
    /\ storage = [i \in IDs |-> <<>>]
    /\ pc = [c \in Conns |-> "free"]
    /\ sockID = [c \in Conns |-> Nil]
    /\ isBanned = [c \in Conns |-> FALSE]
    /\ pendingFile = [c \in Conns |-> NoFile]
    /\ subscriptions = [c \in Conns |-> {}]
    /\ writeChan = [c \in Conns |-> <<>>]
    /\ binaryChan = [c \in Conns |-> <<>>]
    /\ writer = [c \in Conns |-> "none"]
    /\ wire = [c \in Conns |-> <<>>]
    /\ fan = Idle
    /\ nops = 0
    /\ NoCalls
    /\ handlers = NoHandlers
    /\ locks = NoLocks
    /\ codec = NoCodec

\* ------------------------------------------------------------ clock
\* The wall clock advances between two reads, or does not.
Tick ==
    /\ clock < MaxClock
    /\ clock' = clock + 1
    /\ UNCHANGED <<callVars, codec, handlers, locks>>
    /\ UNCHANGED <<hubVars, storage, pc, sockVars, chanVars, writer, wire, fan, nops>>

\* ------------------------------------------------------------ admission
\* Connections are accepted in index order.
NextConn(c) == pc[c] = "free" /\ \A d \in Conns : d < c => pc[d] # "free"

\* The Hub lock held until the handlers triggered under it have returned.
HubLockFree_AfterHandlers == fan.kind \in {"idle", "SendMessage"} /\ handlers.running = {}

\* The Hub write lock is free when no fan-out holds the read lock; a room
\* broadcast holds the Room lock only.
HubLockFree == fan.kind \in {"idle", "SendMessage"}

\* The admission check with the limit itself let through.
LimitReached_OffByOne == connCount > maxConns

\* Hub.NewSocket, line 56: the admission check.
LimitReached == connCount >= maxConns

\* Hub.NewSocket at the cap: the transport is closed and no Socket exists.
NewSocketReject(c) ==
    /\ NextConn(c)
    /\ HubLockFree
    /\ LimitReached
    /\ pc' = [pc EXCEPT ![c] = "rejected"]
    /\ UNCHANGED <<callVars, codec, handlers, locks>>
    /\ UNCHANGED <<clock, hubVars, storage, sockVars, chanVars, writer, wire, fan, nops>>

\* Hub.NewSocket below the cap, then `go wsConn.writerLoop()`.
NewSocketAdmit(c) ==
    /\ NextConn(c)
    /\ HubLockFree
    /\ ~LimitReached
    /\ LET id == generateSocketID(clock) IN
        /\ sockID' = [sockID EXCEPT ![c] = id]
        /\ sockets' = [sockets EXCEPT ![id] = c]
    /\ connCount' = connCount + 1
    /\ pc' = [pc EXCEPT ![c] = "admitted"]
    /\ writer' = [writer EXCEPT ![c] = "run"]
    /\ UNCHANGED <<callVars, codec, handlers, locks>>
    /\ UNCHANGED <<clock, storage, isBanned, pendingFile, subscriptions, chanVars,
                   wire, fan, nops>>

\* Hub.RemoveSocket
RemoveSocket(h, socketID) ==
    IF h.sockets[socketID] # Nil
    THEN [sockets |-> [h.sockets EXCEPT ![socketID] = Nil], connCount |-> h.connCount - 1]
    ELSE h

\* ------------------------------------------------------------ offline store
\* InMemoryMessageStorage.StoreMessage; t is the clock reading of its
\* generateMessageID call.
StoreMessage(st, recipientID, message, t) ==
    [st EXCEPT ![recipientID] =
        Append(@, [ID |-> generateMessageID(t), Recipient |-> recipientID,
                   Message |-> message, Timestamp |-> t])]

\* InMemoryMessageStorage.GetMessages
GetMessages(st, recipientID) ==
    [k \in 1..Len(st[recipientID]) |-> st[recipientID][k].Message]

\* InMemoryMessageStorage.DeleteMessages: the stored entries whose own ID is
\* among messageIDs are dropped.
DeleteMessages(st, recipientID, messageIDs) ==
    [st EXCEPT ![recipientID] = SelectSeq(@, LAMBDA sm : sm.ID \notin messageIDs)]

\* DeliverOfflineMessages, lines 315-322: data.offline and data.delivered_at
\* are set when Data is nil or a map[string]interface{}.
OfflineMark(msg) ==
    IF msg.Data.kind \in {"nil", "map"}
    THEN [msg EXCEPT !.Data = [@ EXCEPT !.kind = "map", !.offline = TRUE,
                                         !.delivered_at = TRUE]]
    ELSE msg

\* A Data map is a reference: marking the delivered copy marks the stored one.
OfflineMarkStored(sm) ==
    IF sm.Message.Data.kind = "map"
    THEN [sm EXCEPT !.Message = OfflineMark(sm.Message)]
    ELSE sm

\* The messages of a sequence that fit a lane with `room` free places.
Fitting(msgs, room) ==
    IF Len(msgs) <= room THEN msgs ELSE SubSeq(msgs, 1, room)

\* Socket.SendMessage of each message of a sequence, in order.
SendMessages(ch, c, msgs) ==
    IF isBanned[c] THEN ch
    ELSE [ch EXCEPT ![c] = @ \o Fitting(msgs, ChanCap - Len(@))]

\* Hub.DeliverOfflineMessages, the step of HandleWebSocket after NewSocket;
\* then `go s.handleConnection(socket)`.
DeliverOfflineMessages(c) ==
    /\ pc[c] = "admitted"
    /\ LET id         == sockID[c]
           messages   == GetMessages(storage, id)
           messageIDs == {messages[k].ID : k \in 1..Len(messages)} \ {NoID}
           marked     == [k \in 1..Len(messages) |-> OfflineMark(messages[k])]
           aliased    == [storage EXCEPT ![id] =
                             [k \in 1..Len(@) |-> OfflineMarkStored(@[k])]]
       IN  /\ writeChan' = SendMessages(writeChan, c, marked)
           /\ storage' = IF messageIDs # {}
                         THEN DeleteMessages(aliased, id, messageIDs)
                         ELSE aliased
    /\ pc' = [pc EXCEPT ![c] = "reading"]
    /\ handlers' = triggerHandlers(handlers, {"connect"}, c)
    /\ UNCHANGED <<callVars, codec, locks>>
    /\ UNCHANGED <<clock, hubVars, sockVars, binaryChan, writer, wire, fan, nops>>

\* ------------------------------------------------------------ teardown
\* The positions of a reader at which the transport and closeChan are closed.
Closed == {"closing", "closed"}

\* handleConnection's deferred function, run when the read loop returns (a
\* read error or a close frame): the transport and closeChan are closed, the
\* sentinel is offered to writeChan, the socket id is removed from the hub.
CloseConnection(c) ==
    /\ pc[c] = "reading"
    /\ HubLockFree
    /\ pc' = [pc EXCEPT ![c] = "closed"]
    /\ writeChan' = writeAsync(writeChan, c, Sentinel)
    /\ LET h == RemoveSocket([sockets |-> sockets, connCount |-> connCount], sockID[c])
       IN  /\ sockets' = h.sockets
           /\ connCount' = h.connCount
    /\ handlers' = Removed(handlers, c)
    /\ UNCHANGED <<callVars, codec, locks>>
    /\ UNCHANGED <<clock, storage, sockVars, binaryChan, writer, wire, fan, nops>>

\* The deferred function in the order of its statements, first part: the
\* transport is closed, closeChan is closed, the sentinel is offered.
CloseSignal(c) ==
    /\ pc[c] = "reading"
    /\ pc' = [pc EXCEPT ![c] = "closing"]
    /\ writeChan' = writeAsync(writeChan, c, Sentinel)
    /\ UNCHANGED <<callVars, codec, handlers, locks>>
    /\ UNCHANGED <<clock, hubVars, storage, sockVars, binaryChan, writer, wire, fan, nops>>

\* The deferred function, second part: RemoveSocket, which fires the
\* disconnect handlers, then the close handlers.
CloseRemove(c) ==
    /\ pc[c] = "closing"
    /\ HubLockFree
    /\ pc' = [pc EXCEPT ![c] = "closed"]
    /\ LET h == RemoveSocket([sockets |-> sockets, connCount |-> connCount], sockID[c])
       IN  /\ sockets' = h.sockets
           /\ connCount' = h.connCount
    /\ handlers' = Removed(handlers, c)
    /\ UNCHANGED <<callVars, codec, locks>>
    /\ UNCHANGED <<clock, storage, sockVars, chanVars, writer, wire, fan, nops>>

\* ------------------------------------------------------------ writer task
\* writerLoop taking writeChan: the sentinel ends the loop, any other buffer
\* is written as a text frame.
WriterText(c) ==
    /\ writer[c] = "run"
    /\ writeChan[c] # <<>>
    /\ writeChan' = [writeChan EXCEPT ![c] = Tail(@)]
    /\ IF Head(writeChan[c]) = Sentinel
       THEN writer' = [writer EXCEPT ![c] = "done"] /\ wire' = wire
       ELSE /\ Len(wire[c]) < MaxWire
            /\ writer' = writer
            /\ wire' = IF pc[c] \in Closed THEN wire
                       ELSE [wire EXCEPT ![c] = Append(@, <<"text", Head(writeChan[c])>>)]
    /\ UNCHANGED <<callVars, codec, handlers, locks>>
    /\ UNCHANGED <<clock, hubVars, storage, pc, sockVars, binaryChan, fan, nops>>

\* writerLoop taking binaryChan.
WriterBinary(c) ==
    /\ writer[c] = "run"
    /\ binaryChan[c] # <<>>
    /\ Len(wire[c]) < MaxWire
    /\ binaryChan' = [binaryChan EXCEPT ![c] = Tail(@)]
    /\ wire' = IF pc[c] \in Closed THEN wire
               ELSE [wire EXCEPT ![c] = Append(@, <<"binary", Head(binaryChan[c])>>)]
    /\ UNCHANGED <<callVars, codec, handlers, locks>>
    /\ UNCHANGED <<clock, hubVars, storage, pc, sockVars, writeChan, writer, fan, nops>>

\* A writerLoop without the closeChan case: it ends on the sentinel only.
WriterClose_OnSentinelOnly(c) ==
    /\ writer[c] = "run"
    /\ pc[c] \in Closed
    /\ writeChan[c] # <<>>
    /\ Head(writeChan[c]) = Sentinel
    /\ writer' = [writer EXCEPT ![c] = "done"]
    /\ UNCHANGED <<callVars, codec, handlers, locks>>
    /\ UNCHANGED <<clock, hubVars, storage, pc, sockVars, chanVars, wire, fan, nops>>

\* writerLoop taking the closed closeChan.
WriterClose(c) ==
    /\ writer[c] = "run"
    /\ pc[c] \in Closed
    /\ writer' = [writer EXCEPT ![c] = "done"]
    /\ UNCHANGED <<callVars, codec, handlers, locks>>
    /\ UNCHANGED <<clock, hubVars, storage, pc, sockVars, chanVars, wire, fan, nops>>

\* ------------------------------------------------------------ hub fan-out
\* BroadcastExcept and BroadcastBinary without the sender test.
BroadcastExceptAccepts_NoSenderTest(c, excludeSocket) == ~IsBanned(c)

\* The test BroadcastExcept and BroadcastBinary apply to each socket.
BroadcastExceptAccepts(c, excludeSocket) == ~IsBanned(c) /\ c # excludeSocket

\* BroadcastMessageExcept testing the sender for every topic.
BroadcastMessageExceptAccepts_NoTopicTest(c, msg, excludeSocket) ==
    ~IsBanned(c) /\ c # excludeSocket

\* The test BroadcastMessageExcept applies to each socket: a subscriber of a
\* topic message, any socket but the sender otherwise.
BroadcastMessageExceptAccepts(c, msg, excludeSocket) ==
    /\ ~IsBanned(c)
    /\ IF msg.Topic # "" /\ msg.Topic # "general"
       THEN IsSubscribed(c, msg.Topic)
       ELSE c # excludeSocket

\* BroadcastBinaryToAll without the ban test.
BroadcastBinaryToAllAccepts_NoBanTest(c) == TRUE

\* The test BroadcastBinaryToAll applies to each socket.
BroadcastBinaryToAllAccepts(c) == ~IsBanned(c)

\* The test Notify applies to the socket of each listed id.
NotifyAccepts(c) == ~IsBanned(c)

BroadcastExceptTargets(excludeSocket) ==
    {c \in Registered : BroadcastExceptAccepts(c, excludeSocket)}

BroadcastMessageExceptTargets(msg, excludeSocket) ==
    {c \in Registered : BroadcastMessageExceptAccepts(c, msg, excludeSocket)}

BroadcastBinaryToAllTargets == {c \in Registered : BroadcastBinaryToAllAccepts(c)}

NotifyTargets(socketIDs) ==
    {c \in Registered : NotifyAccepts(c) /\ \E i \in socketIDs : sockets[i] = c}

\* Hub.BroadcastMessageExcept
BroadcastMessageExcept(ch, msg, excludeSocket) ==
    writeAsyncAll(ch, BroadcastMessageExceptTargets(msg, excludeSocket), msg)

\* Hub.BroadcastMessage
BroadcastMessage(ch, msg) == BroadcastMessageExcept(ch, msg, Nil)

\* Socket.SendMessage. The flag is read without the Socket lock: the read
\* returns the value some Ban or Unban in progress or completed has written,
\* which is the value the flag has at the step the read is taken.
SendMessage(ch, c, msg) == IF isBanned[c] THEN ch ELSE writeAsync(ch, c, msg)

\* Socket.Send: the Message carries the socket's own id.
Send(ch, c, t, data) ==
    IF isBanned[c] THEN ch
    ELSE writeAsync(ch, c, Message(t, "", data, SocketMsgID(sockID[c]), Nil))

\* A binary payload as a lane entry.
Binary(v) == Message(0, "", MkData("str", v), NoID, Nil)

\* The clock readings a read may return when the read before it returned t.
Later(t) == {u \in Times : u = t \/ u = t + 1}

\* Hub.Emit that stores nothing for an absent recipient.
Emit_Unstored(ch, st, socketID, t, data, t1, t2) ==
    IF sockets[socketID] # Nil
    THEN [w |-> Send(ch, sockets[socketID], t, data), b |-> binaryChan, s |-> st]
    ELSE [w |-> ch, b |-> binaryChan, s |-> st]

\* Hub.Emit: t1 and t2 are the clock readings of the generateMessageID calls
\* of Emit and of StoreMessage.
Emit(ch, st, socketID, t, data, t1, t2) ==
    IF sockets[socketID] # Nil
    THEN [w |-> Send(ch, sockets[socketID], t, data), b |-> binaryChan, s |-> st]
    ELSE [w |-> ch, b |-> binaryChan,
          s |-> StoreMessage(st, socketID,
                             Message(t, "", data, generateMessageID(t1), Nil), t2)]

\* Hub.EmitBinary
EmitBinary(bch, st, socketID, v, t1, t2) ==
    IF sockets[socketID] # Nil /\ ~IsBanned(sockets[socketID])
    THEN [b |-> writeAsync(bch, sockets[socketID], Binary(v)), s |-> st]
    ELSE [b |-> bch,
          s |-> StoreMessage(st, socketID,
                    Message(MsgFile, "", MkData("str", v), generateMessageID(t1), Nil),
                    t2)]

\* ------------------------------------------------------------ dispatcher
\* The reader of connection c takes its next frame; the frame's content is
\* named after its serial number.
Reading(c) == pc[c] = "reading" /\ nops < MaxOps
Serial == nops + 1

\* Connection.Subscribe / Connection.Unsubscribe
Subscribe(subs, c, topic) == [subs EXCEPT ![c] = @ \cup {topic}]
Unsubscribe(subs, c, topic) == [subs EXCEPT ![c] = @ \ {topic}]

AckData(action, topic) ==
    [MkData("str", 0) EXCEPT !.action = action, !.topic = topic]
TopicListMsg ==
    Message(MsgSystem, "", [MapData(0) EXCEPT !.action = "topic_list_update"], NoID, Nil)

\* The subscribe handler with a Subscribe that flips membership: a second
\* subscribe to the same topic removes it.
HandleSubscribe_Toggle(c, topic) ==
    /\ Reading(c)
    /\ subscriptions' = IF topic \in subscriptions[c]
                        THEN Unsubscribe(subscriptions, c, topic)
                        ELSE Subscribe(subscriptions, c, topic)
    /\ writeChan' = BroadcastMessage(
            SendMessage(writeChan, c,
                Message(MsgAck, "", AckData("subscribed", topic), NoID, Nil)),
            TopicListMsg)
    /\ nops' = nops + 1
    /\ handlers' = triggerHandlers(handlers, {"message", "subscribe"}, c)
    /\ UNCHANGED <<callVars, codec, locks>>
    /\ UNCHANGED <<clock, hubVars, storage, pc, sockID, isBanned, pendingFile,
                   binaryChan, writer, wire, fan>>

\* handleUnifiedMessage, case MsgSubscribe: subscribe, ack the sender, then
\* broadcast the topic list to every socket.
HandleSubscribe(c, topic) ==
    /\ Reading(c)
    /\ subscriptions' = Subscribe(subscriptions, c, topic)
    /\ writeChan' = BroadcastMessage(
            SendMessage(writeChan, c,
                Message(MsgAck, "", AckData("subscribed", topic), NoID, Nil)),
            TopicListMsg)
    /\ nops' = nops + 1
    /\ handlers' = triggerHandlers(handlers, {"message", "subscribe"}, c)
    /\ UNCHANGED <<callVars, codec, locks>>
    /\ UNCHANGED <<clock, hubVars, storage, pc, sockID, isBanned, pendingFile,
                   binaryChan, writer, wire, fan>>

\* handleUnifiedMessage, case MsgUnsubscribe
HandleUnsubscribe(c, topic) ==
    /\ Reading(c)
    /\ subscriptions' = Unsubscribe(subscriptions, c, topic)
    /\ writeChan' = BroadcastMessage(
            SendMessage(writeChan, c,
                Message(MsgAck, "", AckData("unsubscribed", topic), NoID, Nil)),
            TopicListMsg)
    /\ nops' = nops + 1
    /\ handlers' = triggerHandlers(handlers, {"message", "unsubscribe"}, c)
    /\ UNCHANGED <<callVars, codec, locks>>
    /\ UNCHANGED <<clock, hubVars, storage, pc, sockID, isBanned, pendingFile,
                   binaryChan, writer, wire, fan>>

\* Server.handleTextMessage, the fallback of handleMessage for a text frame
\* that is not JSON: `subscribe:T` and `unsubscribe:T` are answered with the
\* ack alone, `publish:T:data` is broadcast under topic T, any other text is
\* dropped.
TextVerbs == {"subscribe", "unsubscribe", "publish", "other"}
HandleText(c, verb, topic) ==
    /\ Reading(c)
    /\ writeChan' =
          CASE verb = "subscribe" ->
                 SendMessage(writeChan, c,
                     Message(MsgAck, "", AckData("subscribed", topic), NoID, Nil))
            [] verb = "unsubscribe" ->
                 SendMessage(writeChan, c,
                     Message(MsgAck, "", AckData("unsubscribed", topic), NoID, Nil))
            [] verb = "publish" ->
                 BroadcastMessageExcept(writeChan,
                     Message(MsgBroadcast, topic, MkData("str", Serial), NoID, Nil), c)
            [] OTHER -> writeChan
    /\ nops' = nops + 1
    /\ handlers' = triggerHandlers(handlers, {"message"}, c)
    /\ UNCHANGED <<callVars, codec, locks>>
    /\ UNCHANGED <<clock, hubVars, storage, pc, sockVars, binaryChan, writer, wire, fan>>

\* handleUnifiedMessage, case MsgBroadcast
HandleBroadcast(c, topic) ==
    /\ Reading(c)
    /\ writeChan' = BroadcastMessageExcept(writeChan,
            Message(MsgBroadcast, topic, MapData(Serial), NoID, Nil), c)
    /\ nops' = nops + 1
    /\ handlers' = triggerHandlers(handlers, {"message", "broadcast"}, c)
    /\ UNCHANGED <<callVars, codec, locks>>
    /\ UNCHANGED <<clock, hubVars, storage, pc, sockVars, binaryChan, writer, wire, fan>>

\* The MsgFile case with a slot that keeps the metadata it already holds.
HandleFile_KeepFirst(c, to, topic) ==
    /\ Reading(c)
    /\ pendingFile' = IF pendingFile[c].set THEN pendingFile
                       ELSE [pendingFile EXCEPT ![c] = FileMeta(to, topic, MapData(Serial))]
    /\ nops' = nops + 1
    /\ handlers' = triggerHandlers(handlers, {"message", "file"}, c)
    /\ UNCHANGED <<callVars, codec, locks>>
    /\ UNCHANGED <<clock, hubVars, storage, pc, sockID, isBanned, subscriptions,
                   chanVars, writer, wire, fan>>

\* handleUnifiedMessage, case MsgFile: the metadata fills the pending slot.
HandleFile(c, to, topic) ==
    /\ Reading(c)
    /\ pendingFile' = [pendingFile EXCEPT ![c] = FileMeta(to, topic, MapData(Serial))]
    /\ nops' = nops + 1
    /\ handlers' = triggerHandlers(handlers, {"message", "file"}, c)
    /\ UNCHANGED <<callVars, codec, locks>>
    /\ UNCHANGED <<clock, hubVars, storage, pc, sockID, isBanned, subscriptions,
                   chanVars, writer, wire, fan>>

\* handleUnifiedMessage, case MsgTyping
HandleTyping(c) ==
    /\ Reading(c)
    /\ writeChan' = BroadcastMessageExcept(writeChan,
            Message(MsgTyping, "", [MapData(Serial) EXCEPT !.from = GetAlias(c)],
                    NoID, Nil), c)
    /\ nops' = nops + 1
    /\ handlers' = triggerHandlers(handlers, {"message", "typing"}, c)
    /\ UNCHANGED <<callVars, codec, locks>>
    /\ UNCHANGED <<clock, hubVars, storage, pc, sockVars, binaryChan, writer, wire, fan>>

\* handleUnifiedMessage, case MsgDirect: the message goes to the socket the
\* hub holds for msg.To, if it holds one.
HandleDirect(c, to) ==
    /\ Reading(c)
    /\ writeChan' =
         IF to # Nil /\ sockets[to] # Nil
         THEN SendMessage(writeChan, sockets[to],
                Message(MsgDirect, "", MapData(Serial), generateMessageID(clock),
                        GetAlias(c)))
         ELSE writeChan
    /\ nops' = nops + 1
    /\ handlers' = triggerHandlers(handlers, {"message", "direct"}, c)
    /\ UNCHANGED <<callVars, codec, locks>>
    /\ UNCHANGED <<clock, hubVars, storage, pc, sockVars, binaryChan, writer, wire, fan>>

\* The ThreadID handleMessage decodes: no inbound form sets Message.ThreadID.
ParsedThreadID == ""

\* handleUnifiedMessage, case MsgThread
HandleThread(c, to) ==
    /\ Reading(c)
    /\ \E t2 \in Later(clock) :
        LET data == MapData(Serial)
            threadMsg == Message(MsgThread, "", data, generateMessageID(clock),
                                 GetAlias(c))
            r == Emit(writeChan, storage, to, MsgThread, data, clock, t2)
        IN  IF ParsedThreadID = ""
            THEN UNCHANGED <<clock, writeChan, storage>>
            ELSE IF to # Nil
                 THEN writeChan' = r.w /\ storage' = r.s /\ clock' = t2
                 ELSE /\ writeChan' = BroadcastMessageExcept(writeChan, threadMsg, c)
                      /\ UNCHANGED <<clock, storage>>
    /\ nops' = nops + 1
    /\ handlers' = triggerHandlers(handlers, {"message", "thread"}, c)
    /\ UNCHANGED <<callVars, codec, locks>>
    /\ UNCHANGED <<hubVars, pc, sockVars, binaryChan, writer, wire, fan>>

\* The kinds of handleUnifiedMessage's switch that have no case of their own
\* among the tags of the protocol.
DefaultKinds ==
    {MsgSystem, MsgPong, MsgError, MsgAck, MsgJoined, MsgPeerJoined, MsgPeerLeft,
     MsgCallStateChanged, MsgRecordingStarted, MsgRecordingFinished}

\* handleUnifiedMessage, default case: the sender is sent an ack whose data
\* is {"status": "received"}.
HandleDefault(c, t) ==
    /\ Reading(c)
    /\ t \in DefaultKinds
    /\ writeChan' = SendMessage(writeChan, c,
                        Message(MsgAck, "", AckData("received", ""), NoID, Nil))
    /\ nops' = nops + 1
    /\ handlers' = triggerHandlers(handlers, {"message", msgTypeToString(t)}, c)
    /\ UNCHANGED <<callVars, codec, locks>>
    /\ UNCHANGED <<clock, hubVars, storage, pc, sockVars, binaryChan, writer, wire, fan>>

\* The announcement handleBinaryMessage builds from the pending metadata.
FileMsgData(c) ==
    [MapData(IF pendingFile[c].Data.kind = "map" THEN pendingFile[c].Data.v ELSE 0)
        EXCEPT !.from = GetAlias(c)]

\* handleBinaryMessage leaving the slot as it is.
ClearPending_Kept(c) == pendingFile

\* handleBinaryMessage, line 636: `socket.pendingFile = nil`.
ClearPending(c) == [pendingFile EXCEPT ![c] = NoFile]

\* handleBinaryMessage: a binary frame is paired with the pending metadata,
\* announced and forwarded by the metadata's `to` / `topic`; without pending
\* metadata it is dropped.
HandleBinary(c) ==
    /\ Reading(c)
    /\ LET pf == pendingFile[c]
           fileMsg == Message(MsgFile, pf.Topic, FileMsgData(c), NoID, Nil)
       IN  IF ~pf.set
           THEN UNCHANGED <<clock, storage, chanVars, pendingFile>>
           ELSE /\ pendingFile' = ClearPending(c)
                /\ IF pf.To # Nil
                   THEN \E t2 \in Later(clock) : \E t3 \in Later(t2) : \E t4 \in Later(t3) :
                          LET e == Emit(writeChan, storage, pf.To, MsgFile,
                                        FileMsgData(c), clock, t2)
                              b == EmitBinary(binaryChan, e.s, pf.To, Serial, t3, t4)
                          IN  /\ writeChan' = e.w
                              /\ binaryChan' = b.b
                              /\ storage' = b.s
                              /\ clock' = IF sockets[pf.To] = Nil THEN t4
                                          ELSE IF IsBanned(sockets[pf.To]) THEN t4
                                          ELSE clock
                   ELSE /\ writeChan' = BroadcastMessageExcept(writeChan, fileMsg, c)
                        /\ binaryChan' = writeAsyncAll(binaryChan,
                                            BroadcastBinaryToAllTargets, Binary(Serial))
                        /\ UNCHANGED <<clock, storage>>
    /\ nops' = nops + 1
    /\ UNCHANGED <<callVars, codec, handlers, locks>>
    /\ UNCHANGED <<hubVars, pc, sockID, isBanned, subscriptions, writer, wire, fan>>

\* handleConnection, case PingMessage: the reader task itself writes the pong
\* frame to the transport, under the Connection mutex, with the ping's payload.
HandlePing(c) ==
    /\ Reading(c)
    /\ Len(wire[c]) < MaxWire
    /\ wire' = [wire EXCEPT ![c] = Append(@, <<"pong", Binary(Serial)>>)]
    /\ nops' = nops + 1
    /\ UNCHANGED <<callVars, codec, handlers, locks>>
    /\ UNCHANGED <<clock, hubVars, storage, pc, sockVars, chanVars, writer, fan>>

\* ------------------------------------------------------------ hub API
\* The calls an application makes on the Hub; each is counted like a frame.
Calling == nops < MaxOps

\* Hub.Emit(socketID, "direct", data) with data of shape k.
ApiEmit(socketID, k) ==
    /\ Calling
    /\ \E t2 \in Later(clock) :
        LET r == Emit(writeChan, storage, socketID, MsgDirect, MkData(k, Serial),
                      clock, t2)
        IN  /\ writeChan' = r.w
            /\ storage' = r.s
            /\ clock' = IF sockets[socketID] = Nil THEN t2 ELSE clock
    /\ nops' = nops + 1
    /\ UNCHANGED <<callVars, codec, handlers, locks>>
    /\ UNCHANGED <<hubVars, pc, sockVars, binaryChan, writer, wire, fan>>

\* Hub.EmitBinary(socketID, data)
ApiEmitBinary(socketID) ==
    /\ Calling
    /\ \E t2 \in Later(clock) :
        LET r == EmitBinary(binaryChan, storage, socketID, Serial, clock, t2)
        IN  /\ binaryChan' = r.b
            /\ storage' = r.s
            /\ clock' = IF r.s = storage THEN clock ELSE t2
    /\ nops' = nops + 1
    /\ UNCHANGED <<callVars, codec, handlers, locks>>
    /\ UNCHANGED <<hubVars, pc, sockVars, writeChan, writer, wire, fan>>

\* Hub.BroadcastExcept("broadcast", data, excludeSocket); Hub.Broadcast passes
\* a nil excludeSocket.
ApiBroadcastExcept(excludeSocket) ==
    /\ Calling
    /\ writeChan' = writeAsyncAll(writeChan, BroadcastExceptTargets(excludeSocket),
                        Message(MsgBroadcast, "", MapData(Serial), NoID, Nil))
    /\ nops' = nops + 1
    /\ UNCHANGED <<callVars, codec, handlers, locks>>
    /\ UNCHANGED <<clock, hubVars, storage, pc, sockVars, binaryChan, writer, wire, fan>>

\* Hub.BroadcastBinary(data, excludeSocket)
ApiBroadcastBinary(excludeSocket) ==
    /\ Calling
    /\ binaryChan' = writeAsyncAll(binaryChan, BroadcastExceptTargets(excludeSocket),
                        Binary(Serial))
    /\ nops' = nops + 1
    /\ UNCHANGED <<callVars, codec, handlers, locks>>
    /\ UNCHANGED <<clock, hubVars, storage, pc, sockVars, writeChan, writer, wire, fan>>

\* Hub.Notify(socketIDs, "system", data)
ApiNotify(socketIDs) ==
    /\ Calling
    /\ writeChan' = writeAsyncAll(writeChan, NotifyTargets(socketIDs),
                        Message(MsgSystem, "", MapData(Serial), NoID, Nil))
    /\ nops' = nops + 1
    /\ UNCHANGED <<callVars, codec, handlers, locks>>
    /\ UNCHANGED <<clock, hubVars, storage, pc, sockVars, binaryChan, writer, wire, fan>>

\* Hub.BanSocket: Socket.Ban of the socket the hub holds for the id.
BanSocket(socketID) ==
    /\ sockets[socketID] # Nil
    /\ ~isBanned[sockets[socketID]]
    /\ isBanned' = [isBanned EXCEPT ![sockets[socketID]] = TRUE]
    /\ UNCHANGED <<callVars, codec, handlers, locks>>
    /\ UNCHANGED <<clock, hubVars, storage, pc, sockID, pendingFile, subscriptions,
                   chanVars, writer, wire, fan, nops>>

\* Hub.UnbanSocket; a fan-out in progress has now seen the socket unbanned.
UnbanSocket(socketID) ==
    /\ sockets[socketID] # Nil
    /\ isBanned[sockets[socketID]]
    /\ isBanned' = [isBanned EXCEPT ![sockets[socketID]] = FALSE]
    /\ fan' = IF fan.kind = "idle" THEN fan
              ELSE [fan EXCEPT !.seen = @ \cup {sockets[socketID]}]
    /\ UNCHANGED <<callVars, codec, handlers, locks>>
    /\ UNCHANGED <<clock, hubVars, storage, pc, sockID, pendingFile, subscriptions,
                   chanVars, writer, wire, nops>>

\* ------------------------------------------------------------ fan-out, stepwise
\* A hub fan-out as the goroutine runs it: the read lock is taken, each socket
\* is tested and then, as a separate step, enqueued to; Ban and Unban take only
\* the Socket lock and run in between.
FanCalling == nops < MaxFan

BinaryKinds == {"BroadcastBinary", "BroadcastBinaryToAll", "EmitBinary"}
SetKinds == {"BroadcastExcept", "BroadcastMessageExcept", "BroadcastBinary",
             "BroadcastBinaryToAll"}

\* The fan-outs whose test of a socket is Socket.IsBanned(), which takes the
\* Socket lock for reading; Emit (through Socket.Send) and SendMessage read
\* the flag without it.
LockingKinds == SetKinds \cup {"Notify", "EmitBinary"}

\* The test the fan-out in progress applies to socket c.
FanAccepts(c) ==
    CASE fan.kind = "BroadcastExcept" -> BroadcastExceptAccepts(c, fan.excludeSocket)
      [] fan.kind = "BroadcastBinary" -> BroadcastExceptAccepts(c, fan.excludeSocket)
      [] fan.kind = "BroadcastMessageExcept" ->
            BroadcastMessageExceptAccepts(c, fan.msg, fan.excludeSocket)
      [] fan.kind = "BroadcastBinaryToAll" -> BroadcastBinaryToAllAccepts(c)
      [] fan.kind = "Notify" -> NotifyAccepts(c)
      [] fan.kind = "Emit" -> ~isBanned[c]
      [] fan.kind = "EmitBinary" -> ~IsBanned(c)
      [] fan.kind = "SendMessage" -> ~isBanned[c]
      [] OTHER -> FALSE

\* The fan-out that starts now, over the sockets of todo.
Started(kind, msg, excludeSocket, todo) ==
    [kind |-> kind, msg |-> msg, excludeSocket |-> excludeSocket, todo |-> todo,
     passed |-> Nil, seen |-> {c \in todo : ~isBanned[c]}]

\* BroadcastExcept, BroadcastMessageExcept, BroadcastBinary or
\* BroadcastBinaryToAll takes the read lock and ranges over Hub.sockets.
FanStartBroadcast(kind, topic, excludeSocket) ==
    /\ FanCalling
    /\ fan.kind = "idle"
    /\ fan' = Started(kind,
                      IF kind \in BinaryKinds THEN Binary(Serial)
                      ELSE Message(MsgBroadcast, topic, MapData(Serial), NoID, Nil),
                      excludeSocket, Registered)
    /\ nops' = nops + 1
    /\ UNCHANGED <<callVars, codec, handlers, locks>>
    /\ UNCHANGED <<clock, hubVars, storage, pc, sockVars, chanVars, writer, wire>>

\* Notify takes the read lock and looks up each listed id.
FanStartNotify(socketIDs) ==
    /\ FanCalling
    /\ fan.kind = "idle"
    /\ fan' = Started("Notify", Message(MsgSystem, "", MapData(Serial), NoID, Nil), Nil,
                      {sockets[i] : i \in socketIDs} \ {Nil})
    /\ nops' = nops + 1
    /\ UNCHANGED <<callVars, codec, handlers, locks>>
    /\ UNCHANGED <<clock, hubVars, storage, pc, sockVars, chanVars, writer, wire>>

\* Emit or EmitBinary takes the read lock and looks up the id; an absent
\* recipient's message is stored.
FanStartEmit(kind, socketID) ==
    /\ FanCalling
    /\ fan.kind = "idle"
    /\ IF sockets[socketID] # Nil
       THEN /\ fan' = Started(kind,
                        IF kind = "EmitBinary" THEN Binary(Serial)
                        ELSE Message(MsgDirect, "", MapData(Serial),
                                     SocketMsgID(socketID), Nil),
                        Nil, {sockets[socketID]})
            /\ UNCHANGED <<clock, storage>>
       ELSE \E t2 \in Later(clock) :
            /\ storage' =
                 IF kind = "EmitBinary"
                 THEN EmitBinary(binaryChan, storage, socketID, Serial, clock, t2).s
                 ELSE Emit(writeChan, storage, socketID, MsgDirect, MapData(Serial),
                           clock, t2).s
            /\ clock' = t2
            /\ fan' = fan
    /\ nops' = nops + 1
    /\ UNCHANGED <<callVars, codec, handlers, locks>>
    /\ UNCHANGED <<hubVars, pc, sockVars, chanVars, writer, wire>>

\* Manager.broadcastToRoomExceptPtr takes the Room lock and calls SendMessage
\* on each participant but the excluded one; the room holds `members`.
FanStartRoom(members, excludeSocket) ==
    /\ FanCalling
    /\ fan.kind = "idle"
    /\ fan' = Started("SendMessage", Message(MsgSystem, "", MapData(Serial), NoID, Nil),
                      excludeSocket, members \ {excludeSocket})
    /\ nops' = nops + 1
    /\ UNCHANGED <<callVars, codec, handlers, locks>>
    /\ UNCHANGED <<clock, hubVars, storage, pc, sockVars, chanVars, writer, wire>>

\* The fan-out tests its next socket; EmitBinary stores for a banned one.
FanCheck(c) ==
    /\ fan.kind # "idle"
    /\ fan.passed = Nil
    /\ c \in fan.todo
    /\ fan' = [fan EXCEPT !.todo = @ \ {c},
                          !.passed = IF FanAccepts(c) THEN c ELSE Nil]
    /\ IF fan.kind = "EmitBinary" /\ ~FanAccepts(c)
       THEN \E t2 \in Later(clock) :
            /\ storage' = StoreMessage(storage, sockID[c],
                              Message(MsgFile, "", MkData("str", fan.msg.Data.v),
                                      generateMessageID(clock), Nil), t2)
            /\ clock' = t2
       ELSE UNCHANGED <<clock, storage>>
    /\ UNCHANGED <<callVars, codec, handlers, locks>>
    /\ UNCHANGED <<hubVars, pc, sockVars, chanVars, writer, wire, nops>>

\* The fan-out enqueues to the socket that passed its test.
FanWrite ==
    /\ fan.kind # "idle"
    /\ fan.passed # Nil
    /\ IF fan.kind \in BinaryKinds
       THEN /\ binaryChan' = writeAsync(binaryChan, fan.passed, fan.msg)
            /\ writeChan' = writeChan
       ELSE /\ writeChan' = writeAsync(writeChan, fan.passed, fan.msg)
            /\ binaryChan' = binaryChan
    /\ fan' = [fan EXCEPT !.passed = Nil]
    /\ UNCHANGED <<callVars, codec, handlers, locks>>
    /\ UNCHANGED <<clock, hubVars, storage, pc, sockVars, writer, wire, nops>>

\* The fan-out has ranged over every socket and releases the read lock.
FanEnd ==
    /\ fan.kind # "idle"
    /\ fan.passed = Nil
    /\ fan.todo = {}
    /\ fan' = Idle
    /\ UNCHANGED <<callVars, codec, handlers, locks>>
    /\ UNCHANGED <<clock, hubVars, storage, pc, sockVars, chanVars, writer, wire, nops>>

\* ------------------------------------------------------------ call manager
\* Signaling frames handled during a run.
MaxCalls == 3

\* The signaling kinds modelled: auth, join, and the three relayed kinds.
ForwardKinds == {"offer", "answer", "ice-candidate"}
SignalKinds == {"auth", "join"} \cup ForwardKinds

\* The shapes of a signaling frame's data:
\*   "documented"  the map the wire table lists for the kind ({token},
\*                 {room, display_name}, {sdp, call_id}, {candidate, ...});
\*   "enveloped"   a map {type, id, payload} whose payload is that map;
\*   "malformed"   a map {type, id, payload} whose payload lacks the key the
\*                 handler requires;
\*   "scalar"      anything that is not a map.
Shapes == {"documented", "enveloped", "malformed", "scalar"}

\* HandleSignalingMessage, lines 107-110: data["type"].(string) and
\* data["id"].(string) on a map without these keys panic.
Panics(shape) == shape = "documented"

\* Manager.getRoom and Manager.getPeer
getRoom(roomID) == rooms[roomID]
getPeer(socketID) == peers[socketID]

\* The keys of a Room's participant table.
Members(room) == {i \in IDs : room.Participants[i] # NoPeer}

\* The ids of a set, in ascending order.
RECURSIVE Ascending(_)
Ascending(S) ==
    IF S = {} THEN <<>>
    ELSE LET m == CHOOSE x \in S : \A y \in S : x <= y
         IN  <<m>> \o Ascending(S \ {m})

\* Manager.getRoomState: one ParticipantInfo per entry of the table, here its
\* ID; Go leaves the order of the range open, the model lists by key.
getRoomState(room) ==
    LET keys == Ascending(Members(room))
    IN  [n \in 1..Len(keys) |-> room.Participants[keys[n]].ID]

\* The Message a Manager handler builds: its kind tag, a text (error message
\* or status), the `from` key and the room state.
CallMsg(t, text, from, state) ==
    Message(t, "", [MapData(Serial) EXCEPT !.action = text, !.from = from,
                                          !.participants = state], NoID, Nil)

\* Manager.sendError
sendError(ch, c, message) == SendMessage(ch, c, CallMsg(MsgError, message, Nil, <<>>))

\* The range of broadcastToRoomExceptPtr without its test against
\* excludeSocketID.
RoomTargets_WithSender(room, excludeSocketID) ==
    {room.Participants[i].Socket : i \in Members(room)}

\* The sockets broadcastToRoomExceptPtr calls SendMessage on.
RoomTargets(room, excludeSocketID) ==
    {room.Participants[i].Socket : i \in Members(room) \ {excludeSocketID}}

\* Manager.broadcastToRoomExceptPtr
broadcastToRoomExceptPtr(ch, room, msg, excludeSocketID) ==
    [c \in Conns |->
        IF c \in RoomTargets(room, excludeSocketID) /\ ~isBanned[c]
           /\ Len(ch[c]) < ChanCap
        THEN Append(ch[c], msg) ELSE ch[c]]

\* Manager.broadcastToRoomExcept
broadcastToRoomExcept(ch, roomID, msg, excludeSocketID) ==
    IF getRoom(roomID) # Nil
    THEN broadcastToRoomExceptPtr(ch, heap[getRoom(roomID)], msg, excludeSocketID)
    ELSE ch

\* The reader of connection c takes a signaling frame and the dispatcher
\* hands it to HandleSignalingMessage, which finds the socket in the hub.
Signaling(c) ==
    /\ pc[c] = "reading"
    /\ task[c] = NoTask
    /\ ~crashed
    /\ nops < MaxCalls
    /\ sockets[sockID[c]] = c

\* handleConnection's deferred function with the close handler of
\* cmd/server/main.go: the teardown of CloseConnection, then the first half of
\* HandleDisconnect: the peer is looked up, removed from the room its RoomID
\* names, peer_left is sent to the rest and the table's length is read.
Closing(c, panicking) ==
    LET h == RemoveSocket([sockets |-> sockets, connCount |-> connCount], sockID[c])
        peer == getPeer(sockID[c])
        o == IF peer = NoPeer THEN Nil ELSE getRoom(peer.RoomID)
        left == IF o = Nil THEN heap
                ELSE [heap EXCEPT ![o].Participants[sockID[c]] = NoPeer]
        closed == writeAsync(writeChan, c, Sentinel)
    IN  /\ pc' = [pc EXCEPT ![c] = "closed"]
        /\ sockets' = h.sockets
        /\ connCount' = h.connCount
        /\ heap' = left
        /\ writeChan' =
              IF o = Nil THEN closed
              ELSE broadcastToRoomExceptPtr(closed, left[o],
                       CallMsg(MsgPeerLeft, "", sockID[c], <<>>), sockID[c])
        /\ IF peer = NoPeer
           THEN task' = task /\ crashed' = panicking
           ELSE /\ task' = [task EXCEPT ![c] =
                      [at |-> IF panicking THEN "panic" ELSE "leave", room |-> o,
                       RoomID |-> peer.RoomID,
                       empty |-> o # Nil /\ Members(left[o]) = {}]]
                /\ crashed' = crashed

\* A read error or a close frame ends the read loop.
CallClose(c) ==
    /\ pc[c] = "reading"
    /\ task[c] = NoTask
    /\ ~crashed
    /\ HubLockFree
    /\ Closing(c, FALSE)
    /\ handlers' = Removed(handlers, c)
    /\ UNCHANGED <<codec, locks>>
    /\ UNCHANGED <<clock, storage, sockVars, binaryChan, writer, wire, fan, nops,
                   properties, rooms, peers>>

\* HandleDisconnect, second half: the room found empty is deleted from
\* Manager.rooms under its id, then the peer from Manager.peers; after a
\* panic the process ends once the deferred function has returned.
LeaveEnd(c) ==
    /\ task[c].at \in {"leave", "panic"}
    /\ ~crashed
    /\ rooms' = IF task[c].empty THEN [rooms EXCEPT ![task[c].RoomID] = Nil] ELSE rooms
    /\ peers' = [peers EXCEPT ![sockID[c]] = NoPeer]
    /\ crashed' = (task[c].at = "panic")
    /\ task' = [task EXCEPT ![c] = NoTask]
    /\ UNCHANGED <<codec, handlers, locks>>
    /\ UNCHANGED <<clock, hubVars, storage, pc, sockVars, chanVars, writer, wire, fan,
                   nops, properties, heap>>

\* HandleSignalingMessage on a map without string "type" and "id": the type
\* assertion panics in the reader's goroutine, nothing recovers it, the
\* deferred function of handleConnection runs and the process ends.
SignalPanic(c, kind, shape) ==
    /\ Signaling(c)
    /\ Panics(shape)
    /\ HubLockFree
    /\ Closing(c, TRUE)
    /\ nops' = nops + 1
    /\ handlers' = Removed(triggerHandlers(handlers, {"message", kind}, c), c)
    /\ UNCHANGED <<codec, locks>>
    /\ UNCHANGED <<clock, storage, sockVars, binaryChan, writer, wire, fan,
                   properties, rooms, peers>>

\* handleAuth: a payload with a token makes the socket authenticated and is
\* acknowledged; any other payload is answered with an error.
HandleAuth(c, shape) ==
    /\ Signaling(c)
    /\ ~Panics(shape)
    /\ IF shape = "enveloped"
       THEN /\ properties' = [properties EXCEPT ![c] = ValidUser]
            /\ writeChan' = SendMessage(writeChan, c,
                                CallMsg(MsgAck, "authenticated", Nil, <<>>))
       ELSE /\ properties' = properties
            /\ writeChan' = sendError(writeChan, c, "auth payload")
    /\ nops' = nops + 1
    /\ handlers' = triggerHandlers(handlers, {"message", "auth"}, c)
    /\ UNCHANGED <<codec, locks>>
    /\ UNCHANGED <<clock, hubVars, storage, pc, sockVars, binaryChan, writer, wire, fan,
                   rooms, peers, heap, task, crashed>>

\* handleJoin up to getOrCreateRoom: a bad payload or a socket without
\* user_id is answered with an error; otherwise the room registered under
\* the id is taken, or a new one is allocated and registered.
HandleJoin(c, shape, room) ==
    /\ Signaling(c)
    /\ ~Panics(shape)
    /\ IF shape # "enveloped"
       THEN /\ writeChan' = sendError(writeChan, c, "join payload")
            /\ UNCHANGED <<rooms, heap, task>>
       ELSE IF properties[c] = ""
       THEN /\ writeChan' = sendError(writeChan, c, "Not authenticated")
            /\ UNCHANGED <<rooms, heap, task>>
       ELSE IF getRoom(room) # Nil
       THEN /\ task' = [task EXCEPT ![c] = [at |-> "join", room |-> getRoom(room),
                                            RoomID |-> room, empty |-> FALSE]]
            /\ UNCHANGED <<rooms, heap, writeChan>>
       ELSE /\ Len(heap) < MaxRooms
            /\ heap' = Append(heap, Room(room))
            /\ rooms' = [rooms EXCEPT ![room] = Len(heap) + 1]
            /\ task' = [task EXCEPT ![c] = [at |-> "join", room |-> Len(heap) + 1,
                                            RoomID |-> room, empty |-> FALSE]]
            /\ writeChan' = writeChan
    /\ nops' = nops + 1
    /\ handlers' = triggerHandlers(handlers, {"message", "join"}, c)
    /\ UNCHANGED <<codec, locks>>
    /\ UNCHANGED <<clock, hubVars, storage, pc, sockVars, binaryChan, writer, wire, fan,
                   properties, peers, crashed>>

\* handleJoin from the Peer on: the peer is put into the room object held,
\* then into Manager.peers; the joiner is sent `joined` with the room state
\* and the other participants are sent `peer_joined`.
HandleJoinEnd(c) ==
    /\ task[c].at = "join"
    /\ ~crashed
    /\ LET o == task[c].room
           peer == Peer(sockID[c], properties[c], task[c].RoomID, c)
           joined == [heap EXCEPT ![o].Participants[sockID[c]] = peer]
       IN  /\ heap' = joined
           /\ peers' = [peers EXCEPT ![sockID[c]] = peer]
           /\ writeChan' = broadcastToRoomExceptPtr(
                  SendMessage(writeChan, c,
                      CallMsg(MsgJoined, "", sockID[c], getRoomState(joined[o]))),
                  joined[o], CallMsg(MsgPeerJoined, "", sockID[c], <<>>), sockID[c])
    /\ task' = [task EXCEPT ![c] = NoTask]
    /\ UNCHANGED <<codec, handlers, locks>>
    /\ UNCHANGED <<clock, hubVars, storage, pc, sockVars, binaryChan, writer, wire, fan,
                   nops, properties, rooms, crashed>>

\* handleJoin, lines 226-233: the peer is put into the room object held,
\* under the Room lock, then into Manager.peers, under the Manager lock.
JoinInsert(c) ==
    /\ task[c].at = "join"
    /\ ~crashed
    /\ LET peer == Peer(sockID[c], properties[c], task[c].RoomID, c) IN
       /\ heap' = [heap EXCEPT ![task[c].room].Participants[sockID[c]] = peer]
       /\ peers' = [peers EXCEPT ![sockID[c]] = peer]
    /\ task' = [task EXCEPT ![c].at = "inserted"]
    /\ UNCHANGED <<codec, handlers, locks>>
    /\ UNCHANGED <<clock, hubVars, storage, pc, sockVars, chanVars, writer, wire, fan,
                   nops, properties, rooms, crashed>>

\* handleJoin, lines 244-252: the room state is read under the Room read
\* lock and sent to the joiner as `joined`.
JoinState(c) ==
    /\ task[c].at = "inserted"
    /\ ~crashed
    /\ writeChan' = SendMessage(writeChan, c,
                        CallMsg(MsgJoined, "", sockID[c], getRoomState(heap[task[c].room])))
    /\ task' = [task EXCEPT ![c].at = "stated"]
    /\ UNCHANGED <<codec, handlers, locks>>
    /\ UNCHANGED <<clock, hubVars, storage, pc, sockVars, binaryChan, writer, wire, fan,
                   nops, properties, rooms, peers, heap, crashed>>

\* handleJoin returning after `joined`, the others told nothing.
JoinBroadcast_Skipped(c) ==
    /\ task[c].at = "stated"
    /\ ~crashed
    /\ task' = [task EXCEPT ![c] = NoTask]
    /\ UNCHANGED <<codec, handlers, locks>>
    /\ UNCHANGED <<clock, hubVars, storage, pc, sockVars, chanVars, writer, wire, fan,
                   nops, properties, rooms, peers, heap, crashed>>

\* handleJoin, lines 255-266: the participants the room has by now, but the
\* joiner, are sent `peer_joined`.
JoinBroadcast(c) ==
    /\ task[c].at = "stated"
    /\ ~crashed
    /\ writeChan' = broadcastToRoomExceptPtr(writeChan, heap[task[c].room],
                        CallMsg(MsgPeerJoined, "", sockID[c], <<>>), sockID[c])
    /\ task' = [task EXCEPT ![c] = NoTask]
    /\ UNCHANGED <<codec, handlers, locks>>
    /\ UNCHANGED <<clock, hubVars, storage, pc, sockVars, binaryChan, writer, wire, fan,
                   nops, properties, rooms, peers, heap, crashed>>

\* handleOffer, handleAnswer, handleICECandidate: a payload without the
\* required key and a sender without a peer are dropped silently; otherwise
\* the message goes, with `from`, to the rest of the room the peer names.
HandleForward(c, kind, shape) ==
    /\ Signaling(c)
    /\ ~Panics(shape)
    /\ writeChan' =
          IF shape = "enveloped" /\ getPeer(sockID[c]) # NoPeer
          THEN broadcastToRoomExcept(writeChan, getPeer(sockID[c]).RoomID,
                   CallMsg(stringToMsgType(kind), "", sockID[c], <<>>), sockID[c])
          ELSE writeChan
    /\ nops' = nops + 1
    /\ handlers' = triggerHandlers(handlers, {"message", kind}, c)
    /\ UNCHANGED <<codec, locks>>
    /\ UNCHANGED <<clock, hubVars, storage, pc, sockVars, binaryChan, writer, wire, fan,
                   callVars>>

\* ------------------------------------------------------------ specification
Lifecycle ==
    \/ Tick
    \/ \E c \in Conns : NewSocketReject(c)
    \/ \E c \in Conns : NewSocketAdmit(c)
    \/ \E c \in Conns : DeliverOfflineMessages(c)
    \/ \E c \in Conns : CloseConnection(c)

Dispatch ==
    \/ \E c \in Conns, t \in SubTopics : HandleSubscribe(c, t)
    \/ \E c \in Conns, t \in SubTopics : HandleUnsubscribe(c, t)
    \/ \E c \in Conns, t \in Topics : HandleBroadcast(c, t)
    \/ \E c \in Conns : HandleTyping(c)
    \/ \E c \in Conns, i \in IDs \cup {Nil} : HandleDirect(c, i)
    \/ \E c \in Conns, i \in IDs \cup {Nil} : HandleThread(c, i)
    \/ \E c \in Conns, i \in IDs \cup {Nil}, t \in FileTopics : HandleFile(c, i, t)
    \/ \E c \in Conns : HandleBinary(c)

Api ==
    \/ \E i \in IDs, k \in DataKinds : ApiEmit(i, k)
    \/ \E i \in IDs : ApiEmitBinary(i)
    \/ \E x \in Conns \cup {Nil} : ApiBroadcastExcept(x)
    \/ \E x \in Conns \cup {Nil} : ApiBroadcastBinary(x)
    \/ \E ids \in SUBSET IDs : ApiNotify(ids)
    \/ \E i \in IDs : BanSocket(i)
    \/ \E i \in IDs : UnbanSocket(i)

Writers ==
    \/ \E c \in Conns : WriterText(c)
    \/ \E c \in Conns : WriterBinary(c)
    \/ \E c \in Conns : WriterClose(c)

\* The whole server, each handler and hub call taken as one step.
Next == Lifecycle \/ Dispatch \/ Api \/ Writers

Spec == Init /\ [][Next]_vars

\* The hub registry alone: admissions, drains, removals and bans.
NextHub ==
    \/ Lifecycle
    \/ \E i \in IDs : BanSocket(i)
    \/ \E i \in IDs : UnbanSocket(i)

SpecHub == Init /\ [][NextHub]_vars

\* Direct delivery and the offline store.
NextOffline ==
    \/ Lifecycle
    \/ \E i \in IDs, k \in DataKinds : ApiEmit(i, k)
    \/ \E c \in Conns, i \in IDs \cup {Nil} : HandleDirect(c, i)

SpecOffline == Init /\ [][NextOffline]_vars

\* The store after n calls of Hub.Emit for the absent id 1, every clock
\* reading of theirs being 1; the k-th message carries the content 0 - k.
RECURSIVE Spooled(_)
Spooled(n) ==
    IF n = 0 THEN [i \in IDs |-> <<>>]
    ELSE StoreMessage(Spooled(n - 1), 1,
                      Message(MsgDirect, "", MapData(0 - n), generateMessageID(1), Nil), 1)

\* The server before its first admission, with nothing, one message, or one
\* message more than a lane holds spooled for id 1.
InitSpool ==
    /\ clock = 1
    /\ sockets = [i \in IDs |-> Nil]
    /\ connCount = 0
    /\ \E n \in {0, 1, ChanCap + 1} : storage = Spooled(n)
    /\ pc = [c \in Conns |-> "free"]
    /\ sockID = [c \in Conns |-> Nil]
    /\ isBanned = [c \in Conns |-> FALSE]
    /\ pendingFile = [c \in Conns |-> NoFile]
    /\ subscriptions = [c \in Conns |-> {}]
    /\ writeChan = [c \in Conns |-> <<>>]
    /\ binaryChan = [c \in Conns |-> <<>>]
    /\ writer = [c \in Conns |-> "none"]
    /\ wire = [c \in Conns |-> <<>>]
    /\ fan = Idle
    /\ nops = 0
    /\ NoCalls
    /\ handlers = NoHandlers
    /\ locks = NoLocks
    /\ codec = NoCodec

SpecSpool == InitSpool /\ [][NextOffline]_vars

\* Broadcast and topic fan-out, with subscriptions and bans.
NextFanout ==
    \/ Lifecycle
    \/ \E i \in IDs : BanSocket(i)
    \/ \E i \in IDs : UnbanSocket(i)
    \/ \E c \in Conns, t \in SubTopics : HandleSubscribe(c, t)
    \/ \E c \in Conns, t \in SubTopics : HandleUnsubscribe(c, t)
    \/ \E c \in Conns, t \in Topics : HandleBroadcast(c, t)
    \/ \E c \in Conns : HandleTyping(c)
    \/ \E c \in Conns, i \in IDs \cup {Nil} : HandleThread(c, i)
    \/ \E c \in Conns, t \in FileTopics : HandleFile(c, Nil, t)
    \/ \E c \in Conns : HandleBinary(c)
    \/ \E x \in Conns \cup {Nil} : ApiBroadcastExcept(x)
    \/ \E x \in Conns \cup {Nil} : ApiBroadcastBinary(x)

SpecFanout == Init /\ [][NextFanout]_vars

\* Subscriptions asked for in either encoding: unified frames and plain text.
NextText ==
    \/ Lifecycle
    \/ \E c \in Conns, t \in SubTopics : HandleSubscribe(c, t)
    \/ \E c \in Conns, t \in SubTopics : HandleUnsubscribe(c, t)
    \/ \E c \in Conns, v \in TextVerbs, t \in SubTopics : HandleText(c, v, t)

SpecText == Init /\ [][NextText]_vars

\* File transfer: metadata, binary frame, and the recipients' writer tasks.
NextFile ==
    \/ Lifecycle
    \/ \E i \in IDs : BanSocket(i)
    \/ \E c \in Conns, i \in IDs \cup {Nil}, t \in FileTopics : HandleFile(c, i, t)
    \/ \E c \in Conns : HandleBinary(c)
    \/ Writers

SpecFile == Init /\ [][NextFile]_vars

\* Inbound frames of the kinds without a case of their own, among
\* subscriptions.
NextDefault ==
    \/ Lifecycle
    \/ \E c \in Conns, t \in SubTopics : HandleSubscribe(c, t)
    \/ \E c \in Conns, t \in DefaultKinds : HandleDefault(c, t)

SpecDefault == Init /\ [][NextDefault]_vars

\* Hub fan-outs taken socket by socket, interleaved with Ban and Unban.
NextBan ==
    \/ Lifecycle
    \/ \E i \in IDs : BanSocket(i)
    \/ \E i \in IDs : UnbanSocket(i)
    \/ \E k \in SetKinds, x \in Conns \cup {Nil} :
          FanStartBroadcast(k, "", x)
    \/ \E ids \in SUBSET IDs : FanStartNotify(ids)
    \/ \E k \in {"Emit", "EmitBinary"}, i \in IDs : FanStartEmit(k, i)
    \/ \E x \in Conns : FanStartRoom(Registered, x)
    \/ \E c \in Conns : FanCheck(c)
    \/ FanWrite
    \/ FanEnd

SpecBan == Init /\ [][NextBan]_vars

\* ------------------------------------------------------------ lanes under load
\* The k-th message of earlier traffic still queued on a lane.
Earlier(k) == Message(MsgBroadcast, "", MapData(0 - k), NoID, Nil)

\* A lane holding n messages of earlier traffic, oldest first.
Backlog(n) == [k \in 1..n |-> Earlier(k)]

\* The server with connections 1 and 2 admitted and served, each lane of
\* connection 1 empty or full of earlier traffic its writer has not taken yet.
InitLanes ==
    /\ clock = 2
    /\ sockets = [i \in IDs |-> IF i <= 2 THEN i ELSE Nil]
    /\ connCount = 2
    /\ storage = [i \in IDs |-> <<>>]
    /\ pc = [c \in Conns |-> IF c <= 2 THEN "reading" ELSE "free"]
    /\ sockID = [c \in Conns |-> IF c <= 2 THEN c ELSE Nil]
    /\ isBanned = [c \in Conns |-> FALSE]
    /\ pendingFile = [c \in Conns |-> NoFile]
    /\ subscriptions = [c \in Conns |-> {}]
    /\ \E n \in {0, ChanCap} :
          writeChan = [c \in Conns |-> IF c = 1 THEN Backlog(n) ELSE <<>>]
    /\ \E n \in {0, ChanCap} :
          binaryChan = [c \in Conns |-> IF c = 1 THEN Backlog(n) ELSE <<>>]
    /\ writer = [c \in Conns |-> IF c <= 2 THEN "run" ELSE "none"]
    /\ wire = [c \in Conns |-> <<>>]
    /\ fan = Idle
    /\ nops = 0
    /\ NoCalls
    /\ handlers = NoHandlers
    /\ locks = NoLocks
    /\ codec = NoCodec

\* Enqueues to one socket and to all on both lanes, and the writer tasks.
NextLanes ==
    \/ \E i \in IDs : ApiEmit(i, "map")
    \/ \E i \in IDs : ApiEmitBinary(i)
    \/ ApiBroadcastExcept(Nil)
    \/ ApiBroadcastBinary(Nil)
    \/ \E c \in Conns : WriterText(c)
    \/ \E c \in Conns : WriterBinary(c)

SpecLanes == InitLanes /\ [][NextLanes]_vars

\* ------------------------------------------------------------ pending metadata
\* The server with connections 1 and 2 admitted and served, connection 1
\* having sent file metadata (content 0 - 1) and no binary frame since.
InitSlot ==
    /\ clock = 2
    /\ sockets = [i \in IDs |-> IF i <= 2 THEN i ELSE Nil]
    /\ connCount = 2
    /\ storage = [i \in IDs |-> <<>>]
    /\ pc = [c \in Conns |-> IF c <= 2 THEN "reading" ELSE "free"]
    /\ sockID = [c \in Conns |-> IF c <= 2 THEN c ELSE Nil]
    /\ isBanned = [c \in Conns |-> FALSE]
    /\ \E to \in IDs \cup {Nil}, topic \in FileTopics :
          pendingFile = [c \in Conns |-> IF c = 1 THEN FileMeta(to, topic, MapData(0 - 1))
                                                  ELSE NoFile]
    /\ \E subs \in SUBSET SubTopics :
          subscriptions = [c \in Conns |-> IF c = 2 THEN subs ELSE {}]
    /\ writeChan = [c \in Conns |-> <<>>]
    /\ binaryChan = [c \in Conns |-> <<>>]
    /\ writer = [c \in Conns |-> IF c <= 2 THEN "run" ELSE "none"]
    /\ wire = [c \in Conns |-> <<>>]
    /\ fan = Idle
    /\ nops = 0
    /\ NoCalls
    /\ handlers = NoHandlers
    /\ locks = NoLocks
    /\ codec = NoCodec

\* Metadata and binary frames, connections closing, and the writer tasks.
NextSlot ==
    \/ \E c \in Conns, i \in IDs \cup {Nil}, t \in FileTopics : HandleFile(c, i, t)
    \/ \E c \in Conns : HandleBinary(c)
    \/ \E c \in Conns : CloseConnection(c)
    \/ Writers

SpecSlot == InitSlot /\ [][NextSlot]_vars

\* ------------------------------------------------------------ emit during admission
\* One Hub.Emit, taken step by step under the Hub read lock, among
\* admissions and their offline drains.
NextAdmit ==
    \/ Tick
    \/ \E c \in Conns : NewSocketReject(c)
    \/ \E c \in Conns : NewSocketAdmit(c)
    \/ \E c \in Conns : DeliverOfflineMessages(c)
    \/ \E i \in IDs : FanStartEmit("Emit", i)
    \/ \E c \in Conns : FanCheck(c)
    \/ FanWrite
    \/ FanEnd

SpecAdmit == Init /\ [][NextAdmit]_vars

\* ------------------------------------------------------------ lock requests
\* Tasks inside Hub, Manager and store operations at the same time.
NextLocks ==
    \/ \E t \in Tasks, op \in LockOps : LockStart(t, op)
    \/ \E t \in Tasks : LockRequest(t)
    \/ \E t \in Tasks : LockGrant(t)
    \/ \E t \in Tasks : LockRelease(t)

SpecLocks == Init /\ [][NextLocks]_vars

\* The Go scheduler runs a runnable goroutine: while some task can make its
\* next lock call, or some blocked call can return, one of them does.
LockFairness ==
    WF_vars(\E t \in Tasks : LockRequest(t) \/ LockGrant(t) \/ LockRelease(t))

SpecLocksLive == SpecLocks /\ LockFairness

\* ------------------------------------------------------------ handlers that hang
\* The events the application registered a handler for with Hub.On.
HandledEvents == {"connect", "disconnect", "close", "message"}

\* The server before its first admission, with a handler under each event.
InitHandlers ==
    /\ clock = 1
    /\ sockets = [i \in IDs |-> Nil]
    /\ connCount = 0
    /\ storage = [i \in IDs |-> <<>>]
    /\ pc = [c \in Conns |-> "free"]
    /\ sockID = [c \in Conns |-> Nil]
    /\ isBanned = [c \in Conns |-> FALSE]
    /\ pendingFile = [c \in Conns |-> NoFile]
    /\ subscriptions = [c \in Conns |-> {}]
    /\ writeChan = [c \in Conns |-> <<>>]
    /\ binaryChan = [c \in Conns |-> <<>>]
    /\ writer = [c \in Conns |-> "none"]
    /\ wire = [c \in Conns |-> <<>>]
    /\ fan = Idle
    /\ nops = 0
    /\ NoCalls
    /\ codec = NoCodec
    /\ handlers = [NoHandlers EXCEPT !.on = HandledEvents]
    /\ locks = NoLocks

\* Admissions, removals, a dispatched frame and a hub fan-out; every handler
\* goroutine started hangs, so `running` only grows.
NextHandlers ==
    \/ Tick
    \/ \E c \in Conns : NewSocketReject(c)
    \/ \E c \in Conns : NewSocketAdmit(c)
    \/ \E c \in Conns : DeliverOfflineMessages(c)
    \/ \E c \in Conns : CloseSignal(c)
    \/ \E c \in Conns : CloseRemove(c)
    \/ \E c \in Conns : HandleBroadcast(c, "")
    \/ FanStartBroadcast("BroadcastExcept", "", Nil)
    \/ \E c \in Conns : FanCheck(c)
    \/ FanWrite
    \/ FanEnd

SpecHandlers == InitHandlers /\ [][NextHandlers]_vars

\* The goroutines of HandleWebSocket, handleConnection and of a hub call are
\* scheduled while they can run.
HubFairness ==
    /\ \A c \in Conns : WF_vars(DeliverOfflineMessages(c))
    /\ \A c \in Conns : WF_vars(CloseRemove(c))
    /\ \A c \in Conns : WF_vars(FanCheck(c))
    /\ WF_vars(FanWrite)
    /\ WF_vars(FanEnd)

SpecHandlersLive == SpecHandlers /\ HubFairness

\* The same, with ping frames arriving from the clients.
NextPing ==
    \/ NextLanes
    \/ \E c \in Conns : HandlePing(c)

SpecPing == InitLanes /\ [][NextPing]_vars

\* ------------------------------------------------------------ shutdown
\* Readers that exit, statement by statement, while messages are emitted to
\* the first socket and the writer tasks run.
NextClose ==
    \/ \E c \in Conns : CloseSignal(c)
    \/ \E c \in Conns : CloseRemove(c)
    \/ ApiEmit(1, "map")
    \/ ApiEmitBinary(1)
    \/ Writers

SpecClose == InitLanes /\ [][NextClose]_vars

\* A goroutine that can run is run: each writer task takes its next ready
\* case, and select, choosing at random among the ready cases, does not pass
\* over the closed closeChan forever.
WriterFairness ==
    \A c \in Conns :
        WF_vars(WriterText(c)) /\ WF_vars(WriterBinary(c)) /\ WF_vars(WriterClose(c))

SpecCloseLive == SpecClose /\ WriterFairness

\* ------------------------------------------------------------ call signaling
\* The server of cmd/server with connections 1 and 2 admitted and served,
\* each of them authenticated already or not, and no room yet.
InitCall ==
    /\ clock = 2
    /\ sockets = [i \in IDs |-> IF i <= 2 THEN i ELSE Nil]
    /\ connCount = 2
    /\ storage = [i \in IDs |-> <<>>]
    /\ pc = [c \in Conns |-> IF c <= 2 THEN "reading" ELSE "free"]
    /\ sockID = [c \in Conns |-> IF c <= 2 THEN c ELSE Nil]
    /\ isBanned = [c \in Conns |-> FALSE]
    /\ pendingFile = [c \in Conns |-> NoFile]
    /\ subscriptions = [c \in Conns |-> {}]
    /\ writeChan = [c \in Conns |-> <<>>]
    /\ binaryChan = [c \in Conns |-> <<>>]
    /\ writer = [c \in Conns |-> IF c <= 2 THEN "run" ELSE "none"]
    /\ wire = [c \in Conns |-> <<>>]
    /\ fan = Idle
    /\ nops = 0
    /\ properties \in [Conns -> {"", ValidUser}]
    /\ properties[3] = ""
    /\ rooms = [r \in RoomIDs |-> Nil]
    /\ peers = [i \in IDs |-> NoPeer]
    /\ heap = <<>>
    /\ task = [c \in Conns |-> NoTask]
    /\ crashed = FALSE
    /\ handlers = NoHandlers
    /\ locks = NoLocks
    /\ codec = NoCodec

\* Signaling frames of every kind and shape, closes, and bans.
NextCall ==
    \/ \E c \in Conns, k \in SignalKinds, s \in Shapes : SignalPanic(c, k, s)
    \/ \E c \in Conns, s \in Shapes : HandleAuth(c, s)
    \/ \E c \in Conns, s \in Shapes, r \in RoomIDs : HandleJoin(c, s, r)
    \/ \E c \in Conns : HandleJoinEnd(c)
    \/ \E c \in Conns, k \in ForwardKinds, s \in Shapes : HandleForward(c, k, s)
    \/ \E c \in Conns : CallClose(c)
    \/ \E c \in Conns : LeaveEnd(c)
    \/ \E i \in IDs : ~crashed /\ BanSocket(i)
    \/ \E i \in IDs : ~crashed /\ UnbanSocket(i)

SpecCall == InitCall /\ [][NextCall]_vars

\* Joins taken lock by lock, so that two of them interleave, with bans and
\* disconnects.
NextJoin ==
    \/ \E c \in Conns, s \in Shapes : HandleAuth(c, s)
    \/ \E c \in Conns, s \in Shapes, r \in RoomIDs : HandleJoin(c, s, r)
    \/ \E c \in Conns : JoinInsert(c)
    \/ \E c \in Conns : JoinState(c)
    \/ \E c \in Conns : JoinBroadcast(c)
    \/ \E c \in Conns : CallClose(c)
    \/ \E c \in Conns : LeaveEnd(c)
    \/ \E i \in IDs : BanSocket(i)

SpecJoin == InitCall /\ [][NextJoin]_vars

\* ------------------------------------------------------------ conversions
\* A frame arrives in one of its forms.
InitCodec ==
    /\ clock = 1
    /\ sockets = [i \in IDs |-> Nil]
    /\ connCount = 0
    /\ storage = [i \in IDs |-> <<>>]
    /\ pc = [c \in Conns |-> "free"]
    /\ sockID = [c \in Conns |-> Nil]
    /\ isBanned = [c \in Conns |-> FALSE]
    /\ pendingFile = [c \in Conns |-> NoFile]
    /\ subscriptions = [c \in Conns |-> {}]
    /\ writeChan = [c \in Conns |-> <<>>]
    /\ binaryChan = [c \in Conns |-> <<>>]
    /\ writer = [c \in Conns |-> "none"]
    /\ wire = [c \in Conns |-> <<>>]
    /\ fan = Idle
    /\ nops = 0
    /\ NoCalls
    /\ handlers = NoHandlers
    /\ locks = NoLocks
    /\ \E f \in Frames, form \in Forms :
          codec = [NoCodec EXCEPT !.stage = "wire", !.frame = f, !.form = form]

\* handleMessage decodes the frame.
DecodeFrame ==
    /\ codec.stage = "wire"
    /\ codec' = [codec EXCEPT !.stage = "decoded", !.msg = decode(codec.form, codec.frame)]
    /\ UNCHANGED <<clock, hubVars, storage, pc, sockVars, chanVars, writer, wire, fan,
                   nops, callVars, handlers, locks>>

\* The decoded Message is marshalled again.
EncodeMessage ==
    /\ codec.stage = "decoded"
    /\ codec' = [codec EXCEPT !.stage = "encoded", !.out = encode(codec.msg)]
    /\ UNCHANGED <<clock, hubVars, storage, pc, sockVars, chanVars, writer, wire, fan,
                   nops, callVars, handlers, locks>>

NextCodec == DecodeFrame \/ EncodeMessage

SpecCodec == InitCodec /\ [][NextCodec]_vars

\* ------------------------------------------------------------ event names
\* The tags a conversion is applied to: those of the protocol and one on
\* either side of them.
MaxTag == 31
Tags == 0..MaxTag

\* The event names a conversion is applied to: those of the protocol and
\* three strings that are none of them.
EventNames ==
    {"broadcast", "private", "system", "subscribe", "unsubscribe", "ping",
     "pong", "error", "ack", "subscribed", "unsubscribed", "file",
     "typing", "direct", "thread", "user_list", "set_alias", "auth",
     "join", "offer", "answer", "ice-candidate", "mute", "unmute", "hold",
     "dtmf", "joined", "peer-joined", "peer-left", "call-state-changed",
     "recording-started", "recording-finished", "unknown", "hello", ""}

\* A legacy event name, or a tag, awaits its conversion.
InitNames ==
    /\ clock = 1
    /\ sockets = [i \in IDs |-> Nil]
    /\ connCount = 0
    /\ storage = [i \in IDs |-> <<>>]
    /\ pc = [c \in Conns |-> "free"]
    /\ sockID = [c \in Conns |-> Nil]
    /\ isBanned = [c \in Conns |-> FALSE]
    /\ pendingFile = [c \in Conns |-> NoFile]
    /\ subscriptions = [c \in Conns |-> {}]
    /\ writeChan = [c \in Conns |-> <<>>]
    /\ binaryChan = [c \in Conns |-> <<>>]
    /\ writer = [c \in Conns |-> "none"]
    /\ wire = [c \in Conns |-> <<>>]
    /\ fan = Idle
    /\ nops = 0
    /\ NoCalls
    /\ handlers = NoHandlers
    /\ locks = NoLocks
    /\ \/ \E n \in EventNames : codec = [NoCodec EXCEPT !.stage = "name", !.name = n]
       \/ \E t \in Tags : codec = [NoCodec EXCEPT !.stage = "tag", !.tag = t]

\* stringToMsgType applied to an event name.
NameToTag ==
    /\ codec.stage = "name"
    /\ codec' = [codec EXCEPT !.stage = "tagged", !.tag = stringToMsgType(codec.name)]
    /\ UNCHANGED <<clock, hubVars, storage, pc, sockVars, chanVars, writer, wire, fan,
                   nops, callVars, handlers, locks>>

\* msgTypeToString applied to a tag.
TagToName ==
    /\ codec.stage = "tag"
    /\ codec' = [codec EXCEPT !.stage = "named", !.name = msgTypeToString(codec.tag)]
    /\ UNCHANGED <<clock, hubVars, storage, pc, sockVars, chanVars, writer, wire, fan,
                   nops, callVars, handlers, locks>>

\* stringToMsgType applied to the name msgTypeToString returned.
NameBack ==
    /\ codec.stage = "named"
    /\ codec' = [codec EXCEPT !.stage = "back", !.back = stringToMsgType(codec.name)]
    /\ UNCHANGED <<clock, hubVars, storage, pc, sockVars, chanVars, writer, wire, fan,
                   nops, callVars, handlers, locks>>

NextNames == NameToTag \/ TagToName \/ NameBack

SpecNames == InitNames /\ [][NextNames]_vars

\* ============================================================ properties
\* C1: whenever the Hub lock is not held, connCount equals the number of
\* entries of Hub.sockets.
C1_CountMatchesEntries == connCount = Cardinality({i \in IDs : sockets[i] # Nil})

\* C2: connCount never exceeds maxConns, and a NewSocket call made when
\* connCount equals maxConns creates no Socket and leaves Hub.sockets and
\* connCount as they were.
C2_LimitHolds ==
    [][/\ connCount' <= maxConns
       /\ \A c \in Conns :
            (connCount = maxConns /\ pc[c] = "free" /\ pc'[c] # "free") =>
                /\ pc'[c] = "rejected"
                /\ sockID'[c] = Nil
                /\ sockets' = sockets
                /\ connCount' = connCount]_vars

\* A call was rejected and the hub is still full.
C2_Witness == connCount = maxConns /\ \E c \in Conns : pc[c] = "rejected"

\* C3: a direct message to an absent id is delivered, flagged offline with
\* its delivery time, once to the socket next admitted with that id, and a
\* further admission of the id delivers no further copy. SpooledCopies(v) are
\* the places of the write queues holding a delivered copy of the message
\* Hub.Emit stored as call number v (its data nil or a map).
C3_OneOfflineDelivery ==
    LET SpooledCopies(v) ==
            {p \in Conns \X (1..ChanCap) :
                /\ p[2] <= Len(writeChan[p[1]])
                /\ LET m == writeChan[p[1]][p[2]]
                   IN  /\ m.T = MsgDirect
                       /\ m.From = Nil
                       /\ m.ID[1] = "msg"
                       /\ m.Data.kind = "map"
                       /\ m.Data.v = v}
    IN  \A v \in 1..MaxOps :
            /\ Cardinality(SpooledCopies(v)) <= 1
            /\ \A p \in SpooledCopies(v) :
                  /\ writeChan[p[1]][p[2]].Data.offline
                  /\ writeChan[p[1]][p[2]].Data.delivered_at

\* C4: a client's direct message to an id the hub does not hold enqueues
\* nothing and adds exactly one entry for the id to the offline store; to an
\* id the hub holds it is enqueued to that socket only and nothing is stored.
C4_DirectStoredOrSent ==
    [][\A c \in Conns, to \in IDs :
          HandleDirect(c, to) =>
             IF sockets[to] = Nil
             THEN /\ writeChan' = writeChan
                  /\ Len(storage'[to]) = Len(storage[to]) + 1
                  /\ \A i \in IDs \ {to} : storage'[i] = storage[i]
             ELSE /\ \A d \in Conns \ {sockets[to]} : writeChan'[d] = writeChan[d]
                  /\ storage' = storage]_vars

C7_BannedSkipped ==
    [][/\ FanWrite =>
            \A s \in Conns :
               (writeChan'[s] # writeChan[s] \/ binaryChan'[s] # binaryChan[s])
                  => s \in fan.seen
       /\ \A c \in Conns :
            (DeliverOfflineMessages(c) /\ isBanned[c]) => writeChan'[c] = writeChan[c]]_vars

\* A broadcast in progress has passed over a socket banned since before it
\* started and has enqueued to another one.
C7_Witness ==
    /\ fan.kind \in SetKinds
    /\ \E s \in Registered, d \in Registered :
          /\ isBanned[s]
          /\ s \notin fan.todo
          /\ s \notin fan.seen
          /\ s # fan.excludeSocket
          /\ writeChan[s] = <<>> /\ binaryChan[s] = <<>>
          /\ d # s
          /\ writeChan[d] # <<>> \/ binaryChan[d] # <<>>

\* C8: while a socket is banned, the application messages it sends enqueue
\* nothing to any other socket and add nothing to the offline store.
C8_BannedSenderMuted ==
    [][\A c \in Conns :
          (/\ isBanned[c]
           /\ \/ \E t \in Topics : HandleBroadcast(c, t)
              \/ HandleTyping(c)
              \/ \E i \in IDs \cup {Nil} : HandleDirect(c, i)
              \/ \E i \in IDs \cup {Nil} : HandleThread(c, i)
              \/ HandleBinary(c))
          => /\ \A d \in Conns \ {c} :
                   writeChan'[d] = writeChan[d] /\ binaryChan'[d] = binaryChan[d]
             /\ storage' = storage]_vars

\* C9: a recipient's transport carries the announcement (t=10) of a file
\* transfer once, and before the transfer's binary payload, however the
\* writer task takes its two lanes: the k-th binary frame written to a
\* connection that was enqueued k announcements follows k of them.
C9_AnnouncedBeforeBinary ==
    LET AnnouncedWithin(c, k) ==
            Cardinality({j \in 1..k :
                wire[c][j][1] = "text" /\ wire[c][j][2].T = MsgFile})
        BinariesWithin(c, k) ==
            Cardinality({j \in 1..k : wire[c][j][1] = "binary"})
        AnnouncedTotal(c) ==
            AnnouncedWithin(c, Len(wire[c]))
            + Cardinality({j \in 1..Len(writeChan[c]) : writeChan[c][j].T = MsgFile})
    IN  \A c \in Conns :
            /\ \A k \in 1..Len(wire[c]) :
                  (/\ wire[c][k][1] = "binary"
                   /\ AnnouncedTotal(c) >= BinariesWithin(c, k))
                  => AnnouncedWithin(c, k) >= BinariesWithin(c, k)
            /\ \A j \in 1..Len(wire[c]), k \in 1..Len(wire[c]) :
                  (/\ j # k
                   /\ wire[c][j][1] = "text" /\ wire[c][j][2].T = MsgFile
                   /\ wire[c][k][1] = "text")
                  => wire[c][j][2] # wire[c][k][2]

\* C10: the binary payload of a file transfer is enqueued to exactly the
\* sockets enqueued its announcement: the recipient named by `to`, else the
\* subscribers of `topic`, else every socket but the sender, banned ones apart.
C10_BinaryFollowsAnnouncement ==
    [][\A c \in Conns :
          LET pf == pendingFile[c]
              recipients ==
                 IF pf.To # Nil
                 THEN {s \in Registered : s = sockets[pf.To] /\ ~isBanned[s]}
                 ELSE IF pf.Topic # ""
                      THEN {s \in Registered :
                               ~isBanned[s] /\ pf.Topic \in subscriptions[s]}
                      ELSE {s \in Registered : ~isBanned[s] /\ s # c}
          IN  (/\ HandleBinary(c)
               /\ pf.set
               /\ \A s \in Conns :
                     Len(writeChan[s]) < ChanCap /\ Len(binaryChan[s]) < ChanCap)
              => /\ {s \in Conns : writeChan'[s] # writeChan[s]} = recipients
                 /\ {s \in Conns : binaryChan'[s] # binaryChan[s]} = recipients]_vars

\* C11: a binary frame from a socket whose pendingFile slot is empty changes
\* nothing and enqueues and stores nothing; the slot is empty at admission and
\* after every binary frame, so a second binary frame in a row is an orphan.
C11_OrphanBinaryDropped ==
    [][\A c \in Conns :
          /\ (HandleBinary(c) /\ ~pendingFile[c].set) =>
                UNCHANGED <<clock, sockets, connCount, storage, pc, sockID, isBanned,
                            pendingFile, subscriptions, writeChan, binaryChan,
                            writer, wire, fan>>
          /\ HandleBinary(c) => ~pendingFile'[c].set
          /\ NewSocketAdmit(c) => ~pendingFile'[c].set]_vars

\* A paired binary frame was forwarded and its sender's slot is empty again.
C11_Witness ==
    \E c \in Conns :
        /\ pc[c] = "reading"
        /\ nops = 2
        /\ ~pendingFile[c].set
        /\ \E d \in Conns : binaryChan[d] # <<>> /\ binaryChan[d][1].Data.v = 2

\* C12: the messages enqueued to one connection are written to its transport
\* in the order they were enqueued, on either lane and across both. A message
\* enqueued by the n-th hub call carries n, so the frames written carry
\* increasing numbers.
C12_WrittenInEnqueueOrder ==
    \A c \in Conns :
        \A j \in 1..Len(wire[c]), k \in 1..Len(wire[c]) :
            (/\ j < k
             /\ wire[c][j][2].Data.v >= 1
             /\ wire[c][k][2].Data.v >= 1)
            => wire[c][j][2].Data.v < wire[c][k][2].Data.v

\* C13: an enqueue never waits: on a full lane the message is dropped and the
\* lane keeps its entries in order; on a lane with room, as after the writer
\* took an entry, the message is appended; a full lane of one recipient does
\* not keep the same fan-out from the other recipients.
C13_DropWhenFull ==
    [][LET Offered(ch, chNext, m, t) ==
               IF Len(ch[t]) < ChanCap
               THEN chNext[t] = Append(ch[t], m)
               ELSE chNext[t] = ch[t]
           text == Message(MsgBroadcast, "", MapData(Serial), NoID, Nil)
       IN  /\ \A t \in Conns :
                Len(writeChan'[t]) <= ChanCap /\ Len(binaryChan'[t]) <= ChanCap
           /\ \A x \in Conns \cup {Nil} :
                ApiBroadcastExcept(x) =>
                   \A t \in Registered \ {x} : Offered(writeChan, writeChan', text, t)
           /\ \A x \in Conns \cup {Nil} :
                ApiBroadcastBinary(x) =>
                   \A t \in Registered \ {x} :
                      Offered(binaryChan, binaryChan', Binary(Serial), t)
           /\ \A i \in IDs :
                (ApiEmitBinary(i) /\ sockets[i] # Nil) =>
                   Offered(binaryChan, binaryChan', Binary(Serial), sockets[i])]_vars

\* Connection 1's full text lane missed the first broadcast, which reached
\* connection 2; its writer then took one entry and the second broadcast was
\* appended.
C13_Witness ==
    /\ sockets[1] = 1 /\ sockets[2] = 2
    /\ Len(wire[1]) = 1 /\ wire[1][1][2] = Earlier(1)
    /\ Len(writeChan[1]) = ChanCap
    /\ writeChan[1][ChanCap].Data.v = 2 /\ writeChan[1][ChanCap].T = MsgBroadcast
    /\ \A k \in 1..Len(writeChan[1]) : writeChan[1][k].Data.v # 1
    /\ \E k \in 1..Len(writeChan[2]) :
          writeChan[2][k].Data.v = 1 /\ writeChan[2][k].T = MsgBroadcast

\* C14: no inbound frame, whatever its kind tag and the shape of its data
\* (the documented signaling payloads included), ends the reader task of the
\* connection it arrived on, closes that connection, removes its socket from
\* the hub or ends the process: after the frame is handled every connection
\* that was being read is still being read and still registered.
C14_FrameNeverEndsReader ==
    [][nops' = nops + 1 =>
          /\ ~crashed'
          /\ \A c \in Conns :
                pc[c] = "reading" =>
                    /\ pc'[c] = "reading"
                    /\ task'[c].at # "panic"
                    /\ sockets'[sockID[c]] = sockets[sockID[c]]]_vars

\* C15: whenever no join and no disconnect is in progress, a room is registered
\* in Manager.rooms exactly if its participant table is non-empty: a registered
\* room has a participant, and a room object that has a participant (a joiner
\* whose join ran alongside the last participant's disconnect included) is the
\* one registered under its id.
C15_RoomIffParticipants ==
    (~crashed /\ \A c \in Conns : task[c] = NoTask) =>
        /\ \A r \in RoomIDs : rooms[r] # Nil => Members(heap[rooms[r]]) # {}
        /\ \A o \in 1..Len(heap) :
              Members(heap[o]) # {} => rooms[heap[o].ID] = o

\* C16: at every point a socket id found in the participant table of a room is
\* found in no other room's table, Manager.peers holds for it a Peer whose
\* RoomID is that room's id, and the hub has a socket registered under it.
C16_OneRoomPerSocket ==
    ~crashed =>
        \A i \in IDs : \A o \in 1..Len(heap) :
            i \in Members(heap[o]) =>
                /\ \A q \in 1..Len(heap) : i \in Members(heap[q]) => q = o
                /\ peers[i].RoomID = heap[o].ID
                /\ sockets[i] # Nil

\* C17: a socket whose join to room R has been processed and which has not
\* disconnected is listed exactly once in the room state of the room
\* registered as R; once HandleDisconnect has completed for a socket, no
\* registered room's state lists it and Manager.peers has no entry for it.
C17_ListedOnceThenNever ==
    LET Count(seq, x) == Cardinality({n \in 1..Len(seq) : seq[n] = x})
        Listed(r, i) == IF rooms[r] = Nil THEN 0
                        ELSE Count(getRoomState(heap[rooms[r]]), i)
    IN  ~crashed =>
          \A c \in Conns :
            /\ (pc[c] = "reading" /\ task[c] = NoTask /\ peers[sockID[c]] # NoPeer)
                  => Listed(peers[sockID[c]].RoomID, sockID[c]) = 1
            /\ (pc[c] = "closed" /\ task[c] = NoTask)
                  => /\ \A r \in RoomIDs : Listed(r, sockID[c]) = 0
                     /\ peers[sockID[c]] = NoPeer

\* C18: an offer, answer or ice-candidate frame from socket A carrying the
\* documented payload, bare or enveloped, is enqueued, with `from` set to A's
\* id, to exactly the other participants of the room A is a peer of that are
\* not banned and whose lane has room; never to A, never to a socket outside
\* that room, and to nobody when A is a peer of no room.
C18_RelayedToTheOthers ==
    [][\A c \in Conns, k \in ForwardKinds, s \in {"documented", "enveloped"} :
          (HandleForward(c, k, s) \/ SignalPanic(c, k, s)) =>
              LET A == sockID[c]
                  m == CallMsg(stringToMsgType(k), "", A, <<>>)
                  o == IF getPeer(A) = NoPeer THEN Nil ELSE getRoom(getPeer(A).RoomID)
                  Others == IF o = Nil THEN {}
                            ELSE {heap[o].Participants[i].Socket :
                                     i \in Members(heap[o]) \ {A}}
              IN  \A d \in Conns :
                    (\E n \in 1..Len(writeChan'[d]) : writeChan'[d][n] = m)
                    <=> (d \in Others /\ ~isBanned[d] /\ Len(writeChan[d]) < ChanCap)]_vars

\* C19: a join frame, of any shape, from a socket whose user_id property is
\* not set creates no room, adds no peer to a room or to Manager.peers,
\* leaves the connection open and, unless the sender is banned or its lane is
\* full, puts an error Message last in the sender's lane; and every Peer in
\* every room carries the user id validateToken returns.
C19_JoinNeedsAuth ==
    [][/\ \A c \in Conns, s \in Shapes :
            ((\E r \in RoomIDs : HandleJoin(c, s, r)) \/ SignalPanic(c, "join", s))
            /\ properties[c] = ""
            => /\ rooms' = rooms /\ heap' = heap /\ peers' = peers
               /\ task'[c] = NoTask
               /\ pc'[c] = "reading" /\ sockets'[sockID[c]] = c /\ ~crashed'
               /\ (~isBanned[c] /\ Len(writeChan[c]) < ChanCap) =>
                     /\ Len(writeChan'[c]) = Len(writeChan[c]) + 1
                     /\ writeChan'[c][Len(writeChan'[c])].T = MsgError
       /\ \A o \in 1..Len(heap') : \A i \in Members(heap'[o]) :
            heap'[o].Participants[i].UserID = ValidUser]_vars

\* C20: a subscribe frame for topic T leaves the sender's set with T added and
\* is without effect on the set when T is already a member; an unsubscribe
\* frame leaves it with T removed and is without effect when T is not a
\* member; unsubscribing T from the set a subscribe to a new T produced gives
\* back the set as it was; and neither frame changes another socket's set.
C20_SubscribeIdempotent ==
    [][\A c \in Conns, t \in SubTopics :
          /\ HandleSubscribe(c, t) =>
                /\ subscriptions'[c] = subscriptions[c] \cup {t}
                /\ t \in subscriptions[c] => subscriptions' = subscriptions
                /\ t \notin subscriptions[c] =>
                      Unsubscribe(subscriptions', c, t) = subscriptions
                /\ Subscribe(subscriptions', c, t) = subscriptions'
                /\ \A d \in Conns \ {c} : subscriptions'[d] = subscriptions[d]
          /\ HandleUnsubscribe(c, t) =>
                /\ subscriptions'[c] = subscriptions[c] \ {t}
                /\ t \notin subscriptions[c] => subscriptions' = subscriptions
                /\ Unsubscribe(subscriptions', c, t) = subscriptions'
                /\ \A d \in Conns \ {c} : subscriptions'[d] = subscriptions[d]]_vars

\* A socket that subscribed to "news" twice: both acks are in its lane and
\* its set holds the topic, while another socket is served as well.
C20_Witness ==
    \E c \in Conns :
        /\ subscriptions[c] = {"news"}
        /\ nops = 2
        /\ \E n1, n2 \in 1..Len(writeChan[c]) :
              /\ n1 < n2
              /\ \A n \in {n1, n2} : /\ writeChan[c][n].T = MsgAck
                                      /\ writeChan[c][n].Data.action = "subscribed"
                                      /\ writeChan[c][n].Data.topic = "news"
        /\ \E d \in Conns \ {c} : pc[d] = "reading" /\ subscriptions[d] = {}

\* C21: a frame sent as an object, decoded and encoded again, is the frame
\* that was sent; and a frame that the array form (no threadId, replyTo, from)
\* or the legacy form (no to and code either) can carry decodes, sent in that
\* form, to the Message that carries each of the frame's fields.
C21_RoundTripAndForms ==
    LET f == codec.frame
        Carried == CASE codec.form = "object" -> TRUE
                     [] codec.form = "array" ->
                           f.threadId = "" /\ f.replyTo = "" /\ f.from = ""
                     [] codec.form = "legacy" ->
                           /\ f.threadId = "" /\ f.replyTo = "" /\ f.from = ""
                           /\ f.to = "" /\ f.code = 0
        Canonical == [T |-> f.t, Topic |-> f.topic, To |-> f.to, Data |-> f.data,
                      Code |-> f.code, ID |-> f.id, ThreadID |-> f.threadId,
                      ReplyTo |-> f.replyTo, From |-> f.from]
    IN  /\ (codec.stage \in {"decoded", "encoded"} /\ Carried) => codec.msg = Canonical
        /\ (codec.stage = "encoded" /\ codec.form = "object") => codec.out = f

\* C22: no two sockets the Hub has admitted, at any time of the run, carry the
\* same id.
C22_SocketIdsDistinct ==
    \A c, d \in Conns :
        (c # d /\ sockID[c] # Nil /\ sockID[d] # Nil) => sockID[c] # sockID[d]

\* C23: a frame is written to a connection's transport only by a step of that
\* connection's writer task; no step of another task, the reader answering a
\* ping included, adds a frame to it.
C23_OnlyWriterWrites ==
    [][\A c \in Conns :
          wire'[c] # wire[c] => (WriterText(c) \/ WriterBinary(c))]_vars

\* C24: the writer of a connection whose reader has exited is shut down (the
\* close signal closed, the sentinel offered) only after the socket has been
\* removed from the hub: whenever the close signal is closed, the hub no
\* longer holds the socket.
C24_RemovedBeforeWriterStops ==
    \A c \in Conns : pc[c] \in Closed => sockets[sockID[c]] # c

\* C25: once a connection's reader has exited, its writer task eventually
\* terminates, whatever its lanes hold (the sentinel dropped by a full text
\* lane included); and the close signal of a connection, once closed, is not
\* closed again.
C25_WriterTerminates ==
    /\ \A c \in Conns : (pc[c] \in Closed /\ writer[c] = "run") ~> (writer[c] = "done")
    /\ [][\A c \in Conns : pc[c] \in Closed => pc'[c] \in Closed /\ ~CloseSignal(c)]_vars

\* The reader of connection 1 exited with the text lane full, so the sentinel
\* was dropped; the writer has terminated on the close signal with the
\* backlog still queued.
C25_Witness ==
    /\ pc[1] = "closed"
    /\ writer[1] = "done"
    /\ Len(writeChan[1]) = ChanCap
    /\ \A n \in 1..ChanCap : writeChan[1][n] # Sentinel

\* C26: a stored message that the offline drain of a socket removes from the
\* store was enqueued to that socket's text lane by the same drain; a message
\* the full lane dropped stays stored.
C26_DeletedOnlyIfEnqueued ==
    [][\A c \in Conns :
          DeliverOfflineMessages(c) =>
              LET before == storage[sockID[c]]
                  after  == storage'[sockID[c]]
                  Kept(k) == \E j \in 1..Len(after) :
                                after[j].Message.Data.v = before[k].Message.Data.v
                  Enqueued(k) == \E n \in (Len(writeChan[c]) + 1)..Len(writeChan'[c]) :
                                    writeChan'[c][n].Data.v = before[k].Message.Data.v
              IN  \A k \in 1..Len(before) : Kept(k) \/ Enqueued(k)]_vars

\* C27: an inbound thread message is delivered with t = 13: to the socket
\* named by `to` when it is set, otherwise to every socket that is not
\* banned, other than the sender (a lane with room receives it).
C27_ThreadDelivered ==
    [][\A c \in Conns, i \in IDs \cup {Nil} :
          HandleThread(c, i) =>
              LET Got(d) == /\ Len(writeChan'[d]) = Len(writeChan[d]) + 1
                            /\ writeChan'[d][Len(writeChan'[d])].T = MsgThread
                  Free(d) == ~isBanned[d] /\ Len(writeChan[d]) < ChanCap
              IN  IF i # Nil
                  THEN sockets[i] # Nil /\ Free(sockets[i]) => Got(sockets[i])
                  ELSE \A d \in Conns \ {c} :
                          (sockID[d] # Nil /\ sockets[sockID[d]] = d /\ Free(d)) => Got(d)]_vars

\* C28: stringToMsgType sends each listed event name to its tag and every
\* other string to 3, and stringToMsgType(msgTypeToString(t)) = t for every
\* tag t of 1..30.
C28_NamesAndTags ==
    LET Listed == {<<"broadcast", 1>>, <<"private", 2>>, <<"system", 3>>,
                   <<"subscribe", 4>>, <<"unsubscribe", 5>>, <<"ping", 6>>,
                   <<"pong", 7>>, <<"error", 8>>, <<"ack", 9>>, <<"subscribed", 9>>,
                   <<"unsubscribed", 9>>, <<"file", 10>>, <<"typing", 11>>,
                   <<"direct", 12>>, <<"thread", 13>>, <<"user_list", 14>>,
                   <<"set_alias", 15>>, <<"auth", 16>>, <<"join", 17>>, <<"offer", 18>>,
                   <<"answer", 19>>, <<"ice-candidate", 20>>, <<"mute", 21>>,
                   <<"unmute", 22>>, <<"hold", 23>>, <<"dtmf", 24>>, <<"joined", 25>>,
                   <<"peer-joined", 26>>, <<"peer-left", 27>>,
                   <<"call-state-changed", 28>>, <<"recording-started", 29>>,
                   <<"recording-finished", 30>>}
        Known == \E p \in Listed : p[1] = codec.name
        Want == IF Known THEN (CHOOSE p \in Listed : p[1] = codec.name)[2] ELSE 3
    IN  /\ codec.stage = "tagged" => codec.tag = Want
        /\ (codec.stage = "back" /\ codec.tag \in 1..30) => codec.back = codec.tag

\* C29: an inbound message of kind 3, 7, 8, 9 or 25..30 changes no hub,
\* socket, subscription, store or room state and enqueues no message to the
\* sender or to any other socket.
C29_InertKinds ==
    [][\A c \in Conns, t \in DefaultKinds :
          HandleDefault(c, t) =>
              UNCHANGED <<hubVars, storage, sockVars, rooms, peers, writeChan,
                          binaryChan>>]_vars

\* C30: file metadata replaces whatever the slot holds, so after M1 and then
\* M2 the slot holds M2 only; the next binary frame is announced with M2's
\* content and routed by M2's `to` / `topic`, the slot is empty afterwards,
\* and once M1 is replaced its content (below 0) is never announced,
\* delivered or stored.
C30_SecondMetadataWins ==
    [][/\ \A c \in Conns :
            (HandleBinary(c) /\ pendingFile[c].set /\ pendingFile[c].Data.v > 0) =>
                LET pf == pendingFile[c]
                    New(d) == (Len(writeChan[d]) + 1)..Len(writeChan'[d])
                    Kept(i) == (Len(storage[i]) + 1)..Len(storage'[i])
                IN  /\ pendingFile'[c] = NoFile
                    /\ \A d \in Conns : \A n \in New(d) :
                          /\ writeChan'[d][n].T = MsgFile
                          /\ writeChan'[d][n].Data.v = pf.Data.v
                          /\ pf.To # Nil => sockets[pf.To] = d
                          /\ pf.To = Nil => writeChan'[d][n].Topic = pf.Topic
                    /\ \A d \in Conns :
                          (pf.To # Nil /\ sockets[pf.To] # d) =>
                              binaryChan'[d] = binaryChan[d]
                    /\ \A i \in IDs : \A n \in Kept(i) :
                          /\ i = pf.To
                          /\ storage'[i][n].Message.T = MsgFile
                          /\ storage'[i][n].Message.Data.kind = "map" =>
                                storage'[i][n].Message.Data.v = pf.Data.v
       /\ \A c \in Conns, to \in IDs \cup {Nil}, topic \in FileTopics :
            HandleFile(c, to, topic) =>
                /\ pendingFile'[c].set
                /\ pendingFile'[c].Data.v = nops'
                /\ pendingFile'[c].To = to /\ pendingFile'[c].Topic = topic
       /\ (\A c \in Conns : pendingFile[c].Data.v >= 0) =>
            /\ \A d \in Conns : \A n \in (Len(writeChan[d]) + 1)..Len(writeChan'[d]) :
                  writeChan'[d][n].Data.v >= 0
            /\ \A i \in IDs : \A n \in (Len(storage[i]) + 1)..Len(storage'[i]) :
                  storage'[i][n].Message.Data.v >= 0]_vars

\* C30 witness: connection 1, whose first metadata was followed by a second
\* one, has sent its binary frame: an announcement with the second
\* metadata's content is queued and the slot is empty.
C30_Witness ==
    /\ nops = 2
    /\ pendingFile[1] = NoFile
    /\ \E d \in Conns : \E n \in 1..Len(writeChan[d]) :
          writeChan[d][n].T = MsgFile /\ writeChan[d][n].Data.v = 1

C32_LeaveAnnounced ==
    [][\A c \in Conns :
          CallClose(c) =>
              LET S == sockID[c]
              IN  \A o \in 1..Len(heap) :
                    S \in Members(heap[o]) =>
                        \A i \in Members(heap[o]) \ {S} :
                            LET d == heap[o].Participants[i].Socket
                            IN  (d # c /\ ~isBanned[d] /\ Len(writeChan[d]) < ChanCap) =>
                                    /\ Len(writeChan'[d]) = Len(writeChan[d]) + 1
                                    /\ writeChan'[d][Len(writeChan'[d])].T = MsgPeerLeft
                                    /\ writeChan'[d][Len(writeChan'[d])].Data.from = S]_vars

\* C33: no task acquires a Socket lock while it holds the Hub lock or a Room
\* lock: the step in which a fan-out takes a socket's lock to read its flag
\* is taken with neither held.
C33_LockOrder ==
    [][\A c \in Conns :
          (FanCheck(c) /\ fan.kind \in LockingKinds) =>
              /\ HubLockFree
              /\ fan.kind # "SendMessage"]_vars

\* C34: whatever handlers never return, an admission under way completes, a
\* removal under way completes and a fan-out under way completes: no later
\* step waits for a handler.
C34_HandlersDoNotStall ==
    /\ \A c \in Conns : (pc[c] = "admitted") ~> (pc[c] = "reading")
    /\ \A c \in Conns : (pc[c] = "closing") ~> (pc[c] = "closed")
    /\ (fan.kind # "idle") ~> (fan.kind = "idle")

\* C34 witness: the connect handler of connection 1 and the disconnect and
\* close handlers of its removal are still running when connection 2, admitted
\* later, has been served and removed.
C34_Witness ==
    /\ {<<"connect", 1>>, <<"disconnect", 1>>, <<"close", 1>>} \subseteq handlers.running
    /\ pc[1] = "closed" /\ pc[2] = "closed"
    /\ <<"connect", 2>> \in handlers.running

\* C35: a socket present in Hub.sockets has a writer task that has not
\* stopped, so no message is enqueued through the registry to a lane nobody
\* drains.
C35_RegisteredIsDrained ==
    \A c \in Conns :
        (sockID[c] # Nil /\ sockets[sockID[c]] = c) => writer[c] # "done"

\* C36: once a Hub.Emit to id X has returned, under every interleaving with
\* the admission of X and its offline drain, the message is in the lane of a
\* socket admitted as X, or it is in the store under X with X absent or X's
\* drain still to come.
C36_EmitNotLost ==
    (nops = 1 /\ fan = Idle) =>
        \E i \in IDs :
            \/ \E c \in Conns :
                  /\ sockID[c] = i
                  /\ \E n \in 1..Len(writeChan[c]) :
                        writeChan[c][n].T = MsgDirect /\ writeChan[c][n].Data.v = 1
            \/ /\ \E n \in 1..Len(storage[i]) :
                      storage[i][n].Message.T = MsgDirect /\ storage[i][n].Message.Data.v = 1
               /\ sockets[i] = Nil \/ pc[sockets[i]] = "admitted"

\* C36 witness: the message was stored while id 1 was absent and the drain of
\* the socket admitted as 1 has enqueued it, marked as delivered offline.
C36_Witness ==
    /\ nops = 1 /\ fan = Idle
    /\ \E c \in Conns :
          /\ sockID[c] = 1 /\ pc[c] = "reading"
          /\ \E n \in 1..Len(writeChan[c]) :
                /\ writeChan[c][n].Data.v = 1
                /\ writeChan[c][n].Data.offline

\* C37: Hub.Emit and Hub.EmitBinary add an entry to the offline store of a
\* recipient only when that recipient is absent from Hub.sockets; the store
\* of a registered recipient, banned or not, is left unchanged.
C37_StoredOnlyWhenAbsent ==
    [][\A i \in IDs :
          ((\E c \in Conns : FanCheck(c)) \/ (\E k \in {"Emit", "EmitBinary"} : FanStartEmit(k, i)))
          /\ storage'[i] # storage[i]
          => sockets[i] = Nil]_vars

\* C38: no state is a deadlock among the Hub, Socket, Manager, Room, store
\* and write locks: a task blocked in a lock call is eventually granted the
\* lock, whatever operations the other tasks are in.
C38_LockGranted ==
    \A t \in Tasks : locks.waiting[t] ~> ~locks.waiting[t]

\* A writer blocked on the Hub lock behind a fan-out that holds the read
\* lock and is itself blocked on the lock of a socket being banned.
C38_Witness ==
    \E a, b, c \in Tasks :
        /\ locks.waiting[a] /\ Head(locks.prog[a]) = <<"Lock", "hub">>
        /\ b \in locks.r["hub"]
        /\ locks.waiting[b] /\ Head(locks.prog[b]) = <<"RLock", "socket">>
        /\ locks.w["socket"] = c

C40_AckAfterChange ==
    [][\A c \in Conns :
          Len(writeChan'[c]) > Len(writeChan[c]) =>
              \A n \in (Len(writeChan[c]) + 1)..Len(writeChan'[c]) :
                  LET m == writeChan'[c][n] IN
                  /\ (m.T = MsgAck /\ m.Data.action = "subscribed") =>
                         m.Data.topic \in subscriptions'[c]
                  /\ (m.T = MsgAck /\ m.Data.action = "unsubscribed") =>
                         m.Data.topic \notin subscriptions'[c]]_vars

====
